---- MODULE Spec2Model ----
(***************************************************************************)
(* Grouping and alignment engine of pipeline/resource.py, followed by the  *)
(* materializer of the same file, cli.run and the project lookup of        *)
(* pipeline/frame.py.                                                      *)
(*                                                                         *)
(* Units: a created_at timestamp is an integer number of seconds, counted  *)
(* from the start of the target day; a clip duration is an integer number  *)
(* of centiseconds.  An optional value (Python's None or a value) is the   *)
(* empty sequence or a one-element sequence.                               *)
(***************************************************************************)
EXTENDS Integers, Sequences, FiniteSets, TLC

VARIABLES
    pc,                 \* position of the run
    tree,               \* the filesystem: source name -> its files in os.walk order
    ffprobe,            \* whether the ffprobe binary is on PATH
    selected_sources,   \* sequence of source names handed to the run
    window,             \* the clustering window
    day_matched_files,  \* the file list handed to clustering and alignment
    groups,             \* the MediaGroup list
    groups_at_entry,    \* the MediaGroup list as alignment received it
    primary_source_name,
    group_anchor_times,
    group_targets,
    primary_anchor_indices,
    source_index,       \* position of the loop over selected_sources
    monotonic_matches,  \* per finished loop iteration: source, candidates, matches
    matches_from_outside_day_filter,
    returned,           \* whether align_groups_by_media_duration has returned
    \* move_groups_to_episodes
    mat_pc,             \* position inside move_groups_to_episodes
    dry_run,
    mat_groups,         \* the MediaGroup list handed to move_groups_to_episodes
    root_exists,        \* whether podcast_root is a directory on disk
    episode_dirs,       \* N such that podcast_root/episode_N is a directory
    episode_plain,      \* N such that podcast_root/episode_N is a regular file
    episode_files,      \* <<N, name>> such that podcast_root/episode_N/name exists
    episode_directories,
    group_index,        \* position of the loop over zip(groups, episode_directories)
    copy_jobs,          \* sequence of [group_index, file, destination]
    job_state,          \* per copy job: queued, running, done_ok, done_failed, ok, failed
    copy_failures,
    episode_groups,
    mat_result,         \* none, returned, RuntimeError or FileExistsError
    attempts,           \* per copy job, how often copy_file_to_destination ran for it
    at_entry,           \* the podcast root as it was when the call began
    dry_plan,           \* the copy jobs of an earlier dry run from the same state
    \* cli.run
    run_pc,             \* position inside run
    args,               \* yes, all_volumes, skip_frameio_upload and the environment
    calls,              \* the calls run has made, in order: [op, arg]
    exit_code,
    \* resolve_frameio_destination_folder_id
    frame_pc,           \* position inside the lookup
    client,             \* what the Frame.io client answers
    destination_name,
    projects,           \* (project_source, project_name, project_id) triples
    seen_project_ids,
    details,
    api_calls,          \* the client calls made so far: [endpoint, arg, ok, items]
    frame_result,       \* none, or [kind, value]
    \* lru_cache(maxsize) around safe_media_duration_seconds
    duration_cache,     \* [path, result] entries, least recently used first
    cache_log           \* per call: [path, hit, probed, result, evicted]

align_vars == <<groups_at_entry, primary_source_name, group_anchor_times, group_targets,
                primary_anchor_indices, source_index, monotonic_matches,
                matches_from_outside_day_filter, returned>>

env_vars == <<tree, ffprobe, selected_sources, window>>

pipeline_vars == <<pc, env_vars, day_matched_files, groups, align_vars>>

disk_vars == <<root_exists, episode_dirs, episode_plain, episode_files>>

mat_vars == <<mat_pc, dry_run, mat_groups, disk_vars, episode_directories, group_index,
              copy_jobs, job_state, copy_failures, episode_groups, mat_result, attempts,
              at_entry, dry_plan>>

run_vars == <<run_pc, args, calls, exit_code>>

frame_vars == <<frame_pc, client, destination_name, projects, seen_project_ids, details,
                api_calls, frame_result>>

\* What the scan, the materializer and run never touch.
cache_vars == <<duration_cache, cache_log>>

far_vars == <<frame_vars, cache_vars>>

rest_vars == <<mat_vars, run_vars, far_vars>>

\* What move_groups_to_episodes leaves alone.
not_mat_vars == <<pipeline_vars, run_vars, far_vars>>

vars == <<pipeline_vars, rest_vars>>

None == <<>>
Some(v) == <<v>>
Value(opt) == opt[1]

Max(a, b) == IF a >= b THEN a ELSE b
Abs(a) == IF a >= 0 THEN a ELSE -a

Range(s) == {s[i] : i \in 1..Len(s)}

----------------------------------------------------------------------------
(* sorted(..., key=created_at) and list.sort(key=start_time): stable sorts *)

\* Mutant: the list is left in the order it came in.
InsertUnsorted(sorted, x) == Append(sorted, x)

InsertByCreatedAt(sorted, x) ==
    LET k == Cardinality({i \in 1..Len(sorted) : sorted[i].created_at <= x.created_at})
    IN  SubSeq(sorted, 1, k) \o <<x>> \o SubSeq(sorted, k + 1, Len(sorted))

RECURSIVE SortedByCreatedAt(_)
SortedByCreatedAt(s) ==
    IF s = <<>> THEN <<>>
    ELSE InsertByCreatedAt(SortedByCreatedAt(SubSeq(s, 1, Len(s) - 1)), s[Len(s)])

InsertByStartTime(sorted, g) ==
    LET k == Cardinality({i \in 1..Len(sorted) : sorted[i].start_time <= g.start_time})
    IN  SubSeq(sorted, 1, k) \o <<g>> \o SubSeq(sorted, k + 1, Len(sorted))

RECURSIVE SortedByStartTime(_)
SortedByStartTime(s) ==
    IF s = <<>> THEN <<>>
    ELSE InsertByStartTime(SortedByStartTime(SubSeq(s, 1, Len(s) - 1)), s[Len(s)])

----------------------------------------------------------------------------
(* group_files_by_start_time *)

MediaFile(source, path, created_at) ==
    [source |-> source, path |-> path, created_at |-> created_at]

MediaGroup(start_time, files) == [start_time |-> start_time, files |-> files]

\* Mutant: a file created exactly one window after the anchor does not join.
JoinsStrictly(created_at, current_anchor, w) == created_at - current_anchor < w

\* The window test of the clustering loop: the file joins the open group.
JoinsCurrentGroup(created_at, current_anchor, w) == created_at - current_anchor <= w

\* Mutant: a new group is opened without moving current_anchor.
RECURSIVE GroupLoopStaleAnchor(_, _, _, _, _)
GroupLoopStaleAnchor(rest, w, acc, current_group, current_anchor) ==
    IF rest = <<>>
    THEN Append(acc, MediaGroup(current_anchor, SortedByCreatedAt(current_group)))
    ELSE LET media_file == Head(rest)
         IN  IF JoinsCurrentGroup(media_file.created_at, current_anchor, w)
             THEN GroupLoopStaleAnchor(Tail(rest), w, acc,
                            Append(current_group, media_file), current_anchor)
             ELSE GroupLoopStaleAnchor(Tail(rest), w,
                            Append(acc, MediaGroup(current_anchor,
                                                   SortedByCreatedAt(current_group))),
                            <<media_file>>, current_anchor)

\* The loop over sorted_files[1:], followed by the append of the last group.
RECURSIVE GroupLoop(_, _, _, _, _)
GroupLoop(rest, w, acc, current_group, current_anchor) ==
    IF rest = <<>>
    THEN Append(acc, MediaGroup(current_anchor, SortedByCreatedAt(current_group)))
    ELSE LET media_file == Head(rest)
         IN  IF JoinsCurrentGroup(media_file.created_at, current_anchor, w)
             THEN GroupLoop(Tail(rest), w, acc,
                            Append(current_group, media_file), current_anchor)
             ELSE GroupLoop(Tail(rest), w,
                            Append(acc, MediaGroup(current_anchor,
                                                   SortedByCreatedAt(current_group))),
                            <<media_file>>, media_file.created_at)

\* Mutant: the loop runs over sorted_files instead of sorted_files[1:].
group_files_first_twice(files, w) ==
    IF files = <<>> THEN <<>>
    ELSE LET sorted_files == SortedByCreatedAt(files)
         IN  GroupLoop(sorted_files, w, <<>>,
                       <<Head(sorted_files)>>, Head(sorted_files).created_at)

group_files_by_start_time(files, w) ==
    IF files = <<>> THEN <<>>
    ELSE LET sorted_files == SortedByCreatedAt(files)
         IN  GroupLoop(Tail(sorted_files), w, <<>>,
                       <<Head(sorted_files)>>, Head(sorted_files).created_at)

----------------------------------------------------------------------------
(* The filesystem and the probes                                            *)
(* A listing entry is [path, media, created_at, duration]: media is the     *)
(* extension test, created_at the stat result (None: OSError), duration    *)
(* what ffprobe prints for the file (None: failure, empty, unparseable or   *)
(* non-positive output).  A path is <<source root, file name>>.              *)

DayStart == 0
DayLength == 86400
DayEnd == DayStart + DayLength
SPILLOVER_WINDOW == 21600

Entry(path) == CHOOSE e \in Range(tree[path[1]]) : e.path = path

\* os.walk without the entries whose name starts with a dot and without what
\* lies below a directory whose name does.
iter_files(source) ==
    LET shown == SelectSeq(tree[source], LAMBDA e : ~e.hidden)
    IN  [i \in 1..Len(shown) |-> shown[i].path]

is_media_file(path) == Entry(path).media

safe_created_at(path) == Entry(path).created_at

safe_media_duration_seconds(path) ==
    IF ~is_media_file(path) THEN None
    ELSE IF ~ffprobe THEN None
    ELSE Entry(path).duration

----------------------------------------------------------------------------
(* scan_source_for_today_files / scan_sources_for_today_files *)

\* Mutant: a file created at day_end still belongs to the day.
InDayClosed(created_at, day_start, day_end) ==
    day_start <= created_at /\ created_at <= day_end

InDay(created_at, day_start, day_end) == day_start <= created_at /\ created_at < day_end

RECURSIVE ScanLoop(_, _, _, _)
ScanLoop(source, paths, day_start, day_end) ==
    IF paths = <<>> THEN <<>>
    ELSE LET file_path == Head(paths)
             rest == ScanLoop(source, Tail(paths), day_start, day_end)
         IN  IF ~is_media_file(file_path) THEN rest
             ELSE IF safe_created_at(file_path) = None THEN rest
             ELSE IF InDay(Value(safe_created_at(file_path)), day_start, day_end)
                  THEN <<MediaFile(source, file_path, Value(safe_created_at(file_path)))>>
                       \o rest
                  ELSE rest

scan_source_for_today_files(source, day_start, day_end) ==
    ScanLoop(source, iter_files(source), day_start, day_end)

RECURSIVE ScanAll(_, _, _)
ScanAll(sources, day_start, day_end) ==
    IF sources = <<>> THEN <<>>
    ELSE scan_source_for_today_files(Head(sources), day_start, day_end)
         \o ScanAll(Tail(sources), day_start, day_end)

scan_sources_for_today_files(sources, day_start, day_end) ==
    SortedByCreatedAt(ScanAll(sources, day_start, day_end))

----------------------------------------------------------------------------
(* align_groups_by_media_duration: the nested helpers *)

\* Mutant: the duration cost is not compared.
is_better_state_by_time(left, right) ==
    IF right = None THEN TRUE
    ELSE IF left[1] # Value(right)[1] THEN left[1] > Value(right)[1]
    ELSE left[3] < Value(right)[3]

\* A DP state is <<match_count, total_duration_cost, total_time_cost>>;
\* right is optional.
is_better_state(left, right) ==
    IF right = None THEN TRUE
    ELSE IF left[1] # Value(right)[1] THEN left[1] > Value(right)[1]
    ELSE IF left[2] # Value(right)[2] THEN left[2] < Value(right)[2]
    ELSE left[3] < Value(right)[3]

CentisecondsPerSecond == 100
MIN_ALLOWED_DELTA == 5 * CentisecondsPerSecond
RELATIVE_TOLERANCE_DIVISOR == 4

\* Mutant: a delta equal to the allowed maximum is rejected too.
ReachesAllowedDelta(duration_delta, target_duration) ==
    duration_delta * RELATIVE_TOLERANCE_DIVISOR
        >= Max(MIN_ALLOWED_DELTA * RELATIVE_TOLERANCE_DIVISOR, target_duration)

\* duration_delta > max(5.0, target_duration * 0.25), both sides times 4.
ExceedsAllowedDelta(duration_delta, target_duration) ==
    duration_delta * RELATIVE_TOLERANCE_DIVISOR
        > Max(MIN_ALLOWED_DELTA * RELATIVE_TOLERANCE_DIVISOR, target_duration)

score_candidate_to_anchor(media_file, duration, anchor_index, anchor_times, targets) ==
    LET target_duration == targets[anchor_index]
    IN  IF target_duration = None THEN None
        ELSE LET duration_delta == Abs(duration - Value(target_duration))
             IN  IF ExceedsAllowedDelta(duration_delta, Value(target_duration))
                 THEN None
                 ELSE Some(<<duration_delta,
                             Abs(media_file.created_at - anchor_times[anchor_index])>>)

\* Mutant: a candidate without a duration is taken to be 13 s long.
MatchableCandidatesGuessed(sorted_candidates) ==
    [i \in 1..Len(sorted_candidates) |->
        LET duration == safe_media_duration_seconds(sorted_candidates[i].path)
        IN  <<sorted_candidates[i], IF duration = None THEN 1300 ELSE Value(duration)>>]

\* matchable_candidates: the sorted candidates with an obtainable duration.
RECURSIVE MatchableCandidates(_)
MatchableCandidates(sorted_candidates) ==
    IF sorted_candidates = <<>> THEN <<>>
    ELSE LET media_file == Head(sorted_candidates)
             duration == safe_media_duration_seconds(media_file.path)
         IN  IF duration = None THEN MatchableCandidates(Tail(sorted_candidates))
             ELSE <<<<media_file, Value(duration)>>>>
                  \o MatchableCandidates(Tail(sorted_candidates))

\* One write into the grid: dp[cell] and prev[cell] when the state is better.
Improve(tab, cell, next_state, step) ==
    IF is_better_state(next_state, tab.dp[cell])
    THEN [dp |-> [tab.dp EXCEPT ![cell] = Some(next_state)],
          prev |-> [tab.prev EXCEPT ![cell] = Some(step)]]
    ELSE tab

\* The body of the two nested for loops for one (candidate_index, anchor_pos):
\* the three transitions out of the cell.  Indices are 0-based as in the source;
\* sequences are 1-based, hence the + 1 on reads.
RelaxCell(tab, candidate_index, anchor_pos, matchable_candidates, allowed_anchor_indices, anchor_times, targets) ==
    LET candidate_count == Len(matchable_candidates)
        anchor_count == Len(allowed_anchor_indices)
        cell == tab.dp[<<candidate_index, anchor_pos>>]
    IN  IF cell = None THEN tab
        ELSE
        LET state == Value(cell)
            t1 == IF candidate_index < candidate_count
                  THEN Improve(tab, <<candidate_index + 1, anchor_pos>>, state,
                               <<"skip_candidate", candidate_index, anchor_pos>>)
                  ELSE tab
            t2 == IF anchor_pos < anchor_count
                  THEN Improve(t1, <<candidate_index, anchor_pos + 1>>, state,
                               <<"skip_anchor", candidate_index, anchor_pos>>)
                  ELSE t1
        IN  IF candidate_index < candidate_count /\ anchor_pos < anchor_count
            THEN LET media_file == matchable_candidates[candidate_index + 1][1]
                     duration == matchable_candidates[candidate_index + 1][2]
                     anchor_index == allowed_anchor_indices[anchor_pos + 1]
                     score == score_candidate_to_anchor(media_file, duration,
                                  anchor_index, anchor_times, targets)
                 IN  IF score = None THEN t2
                     ELSE Improve(t2, <<candidate_index + 1, anchor_pos + 1>>,
                                  <<state[1] + 1,
                                    state[2] + Value(score)[1],
                                    state[3] + Value(score)[2]>>,
                                  <<"match", candidate_index, anchor_pos>>)
            ELSE t2

\* The nested loops, row by row: cell number n is
\* (n \div (anchor_count + 1), n % (anchor_count + 1)).
RECURSIVE FillGrid(_, _, _, _, _, _)
FillGrid(tab, n, matchable_candidates, allowed_anchor_indices, anchor_times, targets) ==
    LET candidate_count == Len(matchable_candidates)
        anchor_count == Len(allowed_anchor_indices)
    IN  IF n >= (candidate_count + 1) * (anchor_count + 1) THEN tab
        ELSE FillGrid(RelaxCell(tab, n \div (anchor_count + 1), n % (anchor_count + 1),
                                matchable_candidates, allowed_anchor_indices,
                                anchor_times, targets),
                      n + 1, matchable_candidates, allowed_anchor_indices,
                      anchor_times, targets)

\* The backtracking loop; the matches come out in forward order (the source
\* appends them backwards and reverses).
RECURSIVE Backtrack(_, _, _, _, _)
Backtrack(prev, candidate_index, anchor_pos, matchable_candidates, allowed_anchor_indices) ==
    IF ~(candidate_index > 0 \/ anchor_pos > 0) THEN <<>>
    ELSE LET step == prev[<<candidate_index, anchor_pos>>]
         IN  IF step = None THEN <<>>
             ELSE LET action == Value(step)[1]
                      previous_candidate_index == Value(step)[2]
                      previous_anchor_pos == Value(step)[3]
                      earlier == Backtrack(prev, previous_candidate_index,
                                           previous_anchor_pos, matchable_candidates,
                                           allowed_anchor_indices)
                  IN  IF action = "match"
                      THEN Append(earlier,
                                  <<allowed_anchor_indices[previous_anchor_pos + 1],
                                    matchable_candidates[previous_candidate_index + 1][1]>>)
                      ELSE earlier

\* Mutant: the candidates are taken in listing order, not sorted by created_at.
select_matches_unsorted(candidates, allowed_anchor_indices, anchor_times, targets) ==
    IF candidates = <<>> \/ allowed_anchor_indices = <<>> THEN <<>>
    ELSE
    LET matchable_candidates == MatchableCandidates(candidates)
        candidate_count == Len(matchable_candidates)
        anchor_count == Len(allowed_anchor_indices)
    IN  IF candidate_count = 0 \/ anchor_count = 0 THEN <<>>
        ELSE
        LET cells == (0..candidate_count) \X (0..anchor_count)
            empty == [dp |-> [c \in cells |-> IF c = <<0, 0>> THEN Some(<<0, 0, 0>>)
                                                ELSE None],
                      prev |-> [c \in cells |-> None]]
            tab == FillGrid(empty, 0, matchable_candidates, allowed_anchor_indices,
                            anchor_times, targets)
        IN  Backtrack(tab.prev, candidate_count, anchor_count,
                      matchable_candidates, allowed_anchor_indices)

select_monotonic_matches(candidates, allowed_anchor_indices, anchor_times, targets) ==
    IF candidates = <<>> \/ allowed_anchor_indices = <<>> THEN <<>>
    ELSE
    LET sorted_candidates == SortedByCreatedAt(candidates)
        matchable_candidates == MatchableCandidates(sorted_candidates)
        candidate_count == Len(matchable_candidates)
        anchor_count == Len(allowed_anchor_indices)
    IN  IF candidate_count = 0 \/ anchor_count = 0 THEN <<>>
        ELSE
        LET cells == (0..candidate_count) \X (0..anchor_count)
            empty == [dp |-> [c \in cells |-> IF c = <<0, 0>> THEN Some(<<0, 0, 0>>)
                                                ELSE None],
                      prev |-> [c \in cells |-> None]]
            tab == FillGrid(empty, 0, matchable_candidates, allowed_anchor_indices,
                            anchor_times, targets)
        IN  Backtrack(tab.prev, candidate_count, anchor_count,
                      matchable_candidates, allowed_anchor_indices)

----------------------------------------------------------------------------
(* align_groups_by_media_duration: the body *)

\* The keys of day_files_by_source, in insertion order.
RECURSIVE SourceOrder(_)
SourceOrder(files) ==
    IF files = <<>> THEN <<>>
    ELSE LET front == SourceOrder(SubSeq(files, 1, Len(files) - 1))
             name == files[Len(files)].source
         IN  IF name \in Range(front) THEN front ELSE Append(front, name)

FilesOfSource(files, name) == SelectSeq(files, LAMBDA f : f.source = name)

\* max(day_files_by_source.items(), key=len of the list)[0]: the first key,
\* in insertion order, whose list is longest.
PrimarySourceName(files) ==
    LET keys == SourceOrder(files)
        count(i) == Len(FilesOfSource(files, keys[i]))
    IN  IF keys = <<>> THEN None
        ELSE Some(keys[CHOOSE i \in 1..Len(keys) :
                        /\ \A j \in 1..Len(keys) : count(j) <= count(i)
                        /\ \A j \in 1..(i - 1) : count(j) < count(i)])

\* Mutant: only the first primary file of a group is kept.
KeepFirstPrimaryFile(gs, name) ==
    LET filtered == [i \in 1..Len(gs) |->
                        [gs[i] EXCEPT !.files =
                            IF FilesOfSource(gs[i].files, name) = <<>> THEN <<>>
                            ELSE <<Head(FilesOfSource(gs[i].files, name))>>]]
    IN  SortedByStartTime(SelectSeq(filtered, LAMBDA g : g.files # <<>>))

\* Lines 380-385: keep the primary files, drop the empty groups, sort.
KeepPrimaryFiles(gs, name) ==
    LET filtered == [i \in 1..Len(gs) |->
                        [gs[i] EXCEPT !.files = FilesOfSource(gs[i].files, name)]]
    IN  SortedByStartTime(SelectSeq(filtered, LAMBDA g : g.files # <<>>))

\* max(durations) if durations else None, over the files of one group.
GroupTarget(group) ==
    LET durations == {Value(safe_media_duration_seconds(f.path)) :
                        f \in {x \in Range(group.files) :
                                 safe_media_duration_seconds(x.path) # None}}
    IN  IF durations = {} THEN None
        ELSE Some(CHOOSE d \in durations : \A e \in durations : e <= d)

GroupTargets(gs) == [i \in 1..Len(gs) |-> GroupTarget(gs[i])]

PrimaryAnchorIndices(targets) ==
    SelectSeq([i \in 1..Len(targets) |-> i], LAMBDA i : targets[i] # None)

\* {media_file.path: media_file for media_file in source_day_files}
RECURSIVE DayCandidates(_)
DayCandidates(source_day_files) ==
    IF source_day_files = <<>> THEN <<>>
    ELSE LET front == DayCandidates(SubSeq(source_day_files, 1, Len(source_day_files) - 1))
             media_file == source_day_files[Len(source_day_files)]
             at == {i \in 1..Len(front) : front[i].path = media_file.path}
         IN  IF at = {} THEN Append(front, media_file)
             ELSE [front EXCEPT ![CHOOSE i \in at : TRUE] = media_file]

\* created_at < spillover_start or created_at >= spillover_end
\* Mutant: the rescan keeps only the files of the selected day.
OutsideSpilloverNoWindow(created_at, day_start, day_end) ==
    created_at < day_start \/ created_at >= day_end

OutsideSpillover(created_at, day_start, day_end) ==
    created_at < day_start - SPILLOVER_WINDOW \/ created_at >= day_end + SPILLOVER_WINDOW

\* Mutant: the spillover filter is applied to a source without same-day files too.
RECURSIVE SpilloverLoopAlwaysFiltered(_, _, _, _, _, _)
SpilloverLoopAlwaysFiltered(candidate_by_path, source, paths, source_day_files, day_start, day_end) ==
    IF paths = <<>> THEN candidate_by_path
    ELSE
    LET file_path == Head(paths)
        created_at == safe_created_at(file_path)
        skip == \/ ~is_media_file(file_path)
                \/ created_at = None
                \/ OutsideSpillover(Value(created_at), day_start, day_end)
                \/ \E i \in 1..Len(candidate_by_path) : candidate_by_path[i].path = file_path
    IN  SpilloverLoopAlwaysFiltered(IF skip THEN candidate_by_path
                                    ELSE Append(candidate_by_path,
                                                MediaFile(source, file_path, Value(created_at))),
                                    source, Tail(paths), source_day_files, day_start, day_end)

\* The loop over iter_files(source.path), lines 423-437.
RECURSIVE SpilloverLoop(_, _, _, _, _, _)
SpilloverLoop(candidate_by_path, source, paths, source_day_files, day_start, day_end) ==
    IF paths = <<>> THEN candidate_by_path
    ELSE
    LET file_path == Head(paths)
        created_at == safe_created_at(file_path)
        skip == \/ ~is_media_file(file_path)
                \/ created_at = None
                \/ /\ source_day_files # <<>>
                   /\ OutsideSpillover(Value(created_at), day_start, day_end)
                \/ \E i \in 1..Len(candidate_by_path) : candidate_by_path[i].path = file_path
    IN  SpilloverLoop(IF skip THEN candidate_by_path
                      ELSE Append(candidate_by_path,
                                  MediaFile(source, file_path, Value(created_at))),
                      source, Tail(paths), source_day_files, day_start, day_end)

\* Mutant: the rescan does not skip a path that is already a candidate.
RECURSIVE SpilloverLoopNoDedup(_, _, _, _, _, _)
SpilloverLoopNoDedup(candidate_by_path, source, paths, source_day_files, day_start, day_end) ==
    IF paths = <<>> THEN candidate_by_path
    ELSE
    LET file_path == Head(paths)
        created_at == safe_created_at(file_path)
        skip == \/ ~is_media_file(file_path)
                \/ created_at = None
                \/ /\ source_day_files # <<>>
                   /\ OutsideSpillover(Value(created_at), day_start, day_end)
    IN  SpilloverLoopNoDedup(IF skip THEN candidate_by_path
                             ELSE Append(candidate_by_path,
                                         MediaFile(source, file_path, Value(created_at))),
                             source, Tail(paths), source_day_files, day_start, day_end)

AllCandidatesNoDedup(source, files, day_start, day_end) ==
    LET source_day_files == FilesOfSource(files, source)
    IN  SpilloverLoopNoDedup(DayCandidates(source_day_files), source, iter_files(source),
                             source_day_files, day_start, day_end)

AllCandidates(source, files, day_start, day_end) ==
    LET source_day_files == FilesOfSource(files, source)
    IN  SpilloverLoop(DayCandidates(source_day_files), source, iter_files(source),
                      source_day_files, day_start, day_end)

\* Mutant: every matched file is appended to the first group.
RECURSIVE AppendMatchesToFirst(_, _)
AppendMatchesToFirst(gs, matches) ==
    IF matches = <<>> THEN gs
    ELSE AppendMatchesToFirst([gs EXCEPT ![1].files = Append(@, Head(matches)[2])],
                              Tail(matches))

\* for anchor_index, media_file in monotonic_matches: groups[anchor_index].files.append
RECURSIVE AppendMatches(_, _)
AppendMatches(gs, matches) ==
    IF matches = <<>> THEN gs
    ELSE LET anchor_index == Head(matches)[1]
             media_file == Head(matches)[2]
         IN  AppendMatches([gs EXCEPT ![anchor_index].files = Append(@, media_file)],
                           Tail(matches))

\* Mutant: a file created exactly at day_end counts as inside the day.
OutsideClosedDay(created_at, day_start, day_end) ==
    created_at < day_start \/ created_at > day_end

OutsideDay(created_at, day_start, day_end) == created_at < day_start \/ created_at >= day_end

OutsideMatches(matches, day_start, day_end) ==
    SelectSeq(matches, LAMBDA m : OutsideDay(m[2].created_at, day_start, day_end))

\* Mutant: the file lists are left in append order.
FinishGroupsUnsorted(gs) ==
    SortedByStartTime(SelectSeq(gs, LAMBDA g : g.files # <<>>))

\* Lines 456-460: sort every file list, drop the empty groups, sort the groups.
FinishGroups(gs) ==
    LET sorted == [i \in 1..Len(gs) |->
                      [gs[i] EXCEPT !.files = SortedByCreatedAt(gs[i].files)]]
    IN  SortedByStartTime(SelectSeq(sorted, LAMBDA g : g.files # <<>>))

EmptyMap == [n \in {} |-> 0]

MapPut(map, key, value) ==
    [n \in DOMAIN map \cup {key} |-> IF n = key THEN value ELSE map[n]]

----------------------------------------------------------------------------
(* The run: scan, cluster, align *)

Scan ==
    /\ pc = "start"
    /\ day_matched_files' = scan_sources_for_today_files(selected_sources, DayStart, DayEnd)
    /\ pc' = IF day_matched_files' = <<>> THEN "done" ELSE "scanned"
    /\ UNCHANGED <<env_vars, rest_vars, groups, align_vars>>

Cluster ==
    /\ pc = "scanned"
    /\ groups' = group_files_by_start_time(day_matched_files, window)
    /\ pc' = "clustered"
    /\ UNCHANGED <<env_vars, rest_vars, day_matched_files, align_vars>>

Return(map) ==
    /\ matches_from_outside_day_filter' = map
    /\ returned' = TRUE
    /\ pc' = "done"

\* Lines 229-406: up to the loop over selected_sources.
AlignBegin ==
    /\ pc = "clustered"
    /\ groups_at_entry' = groups
    /\ UNCHANGED <<env_vars, rest_vars, day_matched_files, monotonic_matches>>
    /\ IF groups = <<>>
       THEN /\ Return(EmptyMap)
            /\ UNCHANGED <<groups, primary_source_name, group_anchor_times,
                           group_targets, primary_anchor_indices, source_index>>
       ELSE
       /\ primary_source_name' = PrimarySourceName(day_matched_files)
       /\ IF primary_source_name' = None
          THEN /\ Return(EmptyMap)
               /\ UNCHANGED <<groups, group_anchor_times, group_targets,
                              primary_anchor_indices, source_index>>
          ELSE
          /\ groups' = KeepPrimaryFiles(groups, Value(primary_source_name'))
          /\ IF groups' = <<>>
             THEN /\ Return(EmptyMap)
                  /\ UNCHANGED <<group_anchor_times, group_targets,
                                 primary_anchor_indices, source_index>>
             ELSE
             /\ group_anchor_times' = [i \in 1..Len(groups') |-> groups'[i].start_time]
             /\ group_targets' = GroupTargets(groups')
             /\ primary_anchor_indices' = PrimaryAnchorIndices(group_targets')
             /\ IF \A i \in 1..Len(group_targets') : group_targets'[i] = None
                THEN /\ Return(EmptyMap)
                     /\ UNCHANGED source_index
                ELSE /\ pc' = "align"
                     /\ source_index' = 1
                     /\ matches_from_outside_day_filter' = EmptyMap
                     /\ UNCHANGED returned

\* One iteration of the loop over selected_sources, lines 412-454.
AlignSource ==
    /\ pc = "align"
    /\ source_index <= Len(selected_sources)
    /\ source_index' = source_index + 1
    /\ UNCHANGED <<pc, env_vars, rest_vars, day_matched_files, groups_at_entry, primary_source_name,
                   group_anchor_times, group_targets, primary_anchor_indices, returned>>
    /\ LET source == selected_sources[source_index]
       IN  IF source = Value(primary_source_name)
           THEN UNCHANGED <<groups, monotonic_matches, matches_from_outside_day_filter>>
           ELSE
           LET all_candidates == AllCandidates(source, day_matched_files, DayStart, DayEnd)
               matches == select_monotonic_matches(all_candidates, primary_anchor_indices,
                                                   group_anchor_times, group_targets)
               outside_matches == OutsideMatches(matches, DayStart, DayEnd)
           IN  /\ groups' = AppendMatches(groups, matches)
               /\ monotonic_matches' = Append(monotonic_matches,
                      [source |-> source, candidates |-> all_candidates,
                       matches |-> matches])
               /\ matches_from_outside_day_filter' =
                      IF outside_matches # <<>>
                      THEN MapPut(matches_from_outside_day_filter, source,
                                  Len(outside_matches))
                      ELSE matches_from_outside_day_filter

\* Lines 456-461.
AlignFinish ==
    /\ pc = "align"
    /\ source_index > Len(selected_sources)
    /\ groups' = FinishGroups(groups)
    /\ returned' = TRUE
    /\ pc' = "done"
    /\ UNCHANGED <<env_vars, rest_vars, day_matched_files, groups_at_entry, primary_source_name,
                   group_anchor_times, group_targets, primary_anchor_indices,
                   source_index, monotonic_matches, matches_from_outside_day_filter>>

Next == Scan \/ Cluster \/ AlignBegin \/ AlignSource \/ AlignFinish

----------------------------------------------------------------------------
(* Inputs of the run *)

PRIMARY == "AudioHijack"
EOS == "EOS_DIGITAL"
NINJAV == "NINJAV"
SourceNames == {PRIMARY, EOS, NINJAV}

MaxPrimaryFiles == 2
MaxSecondaryFiles == 2
MaxSecondFiles == 2

Kind(created_at, duration) == [created_at |-> created_at, duration |-> duration]

\* Audio recordings of the day: 10:00 (8 s), 10:05 (40 s), 14:00 (40 s or 8 s).
PrimaryKinds ==
    {Kind(36000, Some(800)), Kind(36300, Some(4000)),
     Kind(50400, Some(4000)), Kind(50400, Some(800))}

\* Camera files: 09:55 (50 s), 10:01:40 (ffprobe gives nothing), 12:00 (13 s),
\* 24:00 (50 s), 30:00 (10 s).
SecondaryKinds ==
    {Kind(35700, Some(5000)), Kind(36100, None), Kind(43200, Some(1300)),
     Kind(86400, Some(5000)), Kind(108000, Some(1000))}

\* Recorder files: 12:00 (13 s), 13:00 (ffprobe gives nothing), 25:00 (50 s).
SecondKinds == {Kind(43200, Some(1300)), Kind(46800, None), Kind(90000, Some(5000))}

SeqsUpTo(S, n) == UNION {[1..k -> S] : k \in 0..n}

Listing(source, kinds) ==
    [i \in 1..Len(kinds) |->
        [path |-> <<source, i>>, media |-> TRUE, hidden |-> FALSE,
         created_at |-> Some(kinds[i].created_at), duration |-> kinds[i].duration]]

Increasing(kinds) ==
    \A i \in 1..(Len(kinds) - 1) : kinds[i].created_at < kinds[i + 1].created_at

\* move_groups_to_episodes has not been called.
InitMaterializerIdle ==
    /\ mat_pc = "idle"
    /\ dry_run = FALSE
    /\ mat_groups = <<>>
    /\ root_exists = FALSE
    /\ episode_dirs = {}
    /\ episode_plain = {}
    /\ episode_files = {}
    /\ episode_directories = <<>>
    /\ group_index = 0
    /\ copy_jobs = <<>>
    /\ job_state = <<>>
    /\ copy_failures = <<>>
    /\ episode_groups = <<>>
    /\ mat_result = "none"
    /\ attempts = <<>>
    /\ at_entry = <<>>
    /\ dry_plan = None

\* run has not been called.
InitRunIdle ==
    /\ run_pc = "idle"
    /\ args = <<>>
    /\ calls = <<>>
    /\ exit_code = None

\* What the lookup ends with: a root asset id or a RuntimeError.
Outcome(kind, value) == [kind |-> kind, value |-> value]
NoOutcome == Outcome("none", "")

\* The lookup has not been called.
InitFrameIdle ==
    /\ frame_pc = "idle"
    /\ client = <<>>
    /\ destination_name = ""
    /\ projects = <<>>
    /\ seen_project_ids = {}
    /\ details = <<>>
    /\ api_calls = <<>>
    /\ frame_result = NoOutcome

\* safe_media_duration_seconds has not been called through its cache.
InitCacheIdle ==
    /\ duration_cache = <<>>
    /\ cache_log = <<>>

InitFar == InitFrameIdle /\ InitCacheIdle

InitRest == InitMaterializerIdle /\ InitRunIdle /\ InitFar

InitAlignVars ==
    /\ groups = <<>>
    /\ groups_at_entry = <<>>
    /\ primary_source_name = None
    /\ group_anchor_times = <<>>
    /\ group_targets = <<>>
    /\ primary_anchor_indices = <<>>
    /\ source_index = 0
    /\ monotonic_matches = <<>>
    /\ matches_from_outside_day_filter = EmptyMap
    /\ returned = FALSE

Init ==
    /\ pc = "start"
    /\ \E p \in {k \in SeqsUpTo(PrimaryKinds, MaxPrimaryFiles) : k # <<>> /\ Increasing(k)},
          e \in SeqsUpTo(SecondaryKinds, MaxSecondaryFiles),
          n \in {k \in SeqsUpTo(SecondKinds, MaxSecondFiles) : Increasing(k)} :
            tree = [s \in SourceNames |->
                      IF s = PRIMARY THEN Listing(s, p)
                      ELSE IF s = EOS THEN Listing(s, e) ELSE Listing(s, n)]
    /\ ffprobe \in BOOLEAN
    /\ selected_sources = <<PRIMARY, EOS, NINJAV>>
    /\ window = 300
    /\ day_matched_files = <<>>
    /\ InitAlignVars
    /\ InitRest

Spec == Init /\ [][Next]_vars

----------------------------------------------------------------------------
(* The recording day of tests/test_resource_alignment.py *)

File(source, name, media, created_at, duration) ==
    [path |-> <<source, name>>, media |-> media, hidden |-> FALSE,
     created_at |-> created_at, duration |-> duration]

ExampleAudio ==
    <<File(PRIMARY, "session_1217.wav", TRUE, Some(44253), Some(58880)),
      File(PRIMARY, "session_1228.wav", TRUE, Some(44880), Some(833860)),
      File(PRIMARY, "session_1455.wav", TRUE, Some(53752), Some(511694)),
      File(PRIMARY, "session_1632.wav", TRUE, Some(59532), Some(144734))>>

ExampleEos ==
    <<File(EOS, "DSCF0008.MOV", TRUE, Some(82114), Some(888888)),
      File(EOS, "DSCF0009.MOV", TRUE, Some(87766), Some(514714)),
      File(EOS, "DSCF0010.MOV", TRUE, Some(89872), Some(147347)),
      File(EOS, "FFXFER.DAT", FALSE, Some(70604), None)>>

ExampleNinja ==
    <<File(NINJAV, "NINJAV_S001_S001_T832.MOV", TRUE, Some(119574828), Some(889195)),
      File(NINJAV, "NINJAV_S001_S001_T833.MOV", TRUE, Some(119584226), Some(514401)),
      File(NINJAV, "NINJAV_S001_S001_T834.MOV", TRUE, Some(119590004), Some(147487))>>

Reordered(listing, perm) == [i \in 1..Len(listing) |-> listing[perm[i]]]

ExampleSelections ==
    {<<PRIMARY, EOS, NINJAV>>, <<PRIMARY, NINJAV, EOS>>, <<PRIMARY, EOS>>, <<PRIMARY, NINJAV>>}

\* The test's files; the order in which a volume lists its files and the
\* secondary sources selected are free.
InitExample ==
    /\ pc = "start"
    /\ \E pe \in Permutations(1..Len(ExampleEos)),
          pn \in Permutations(1..Len(ExampleNinja)) :
            tree = [s \in SourceNames |->
                      IF s = PRIMARY THEN ExampleAudio
                      ELSE IF s = EOS THEN Reordered(ExampleEos, pe)
                      ELSE Reordered(ExampleNinja, pn)]
    /\ ffprobe = TRUE
    /\ selected_sources \in ExampleSelections
    /\ window = 300
    /\ day_matched_files = <<>>
    /\ InitAlignVars
    /\ InitRest

SpecExample == InitExample /\ [][Next]_vars

\* The files of one source in a group, as file names.
NamesInGroup(group, source) ==
    [i \in 1..Len(FilesOfSource(group.files, source)) |->
        FilesOfSource(group.files, source)[i].path[2]]

\* C6: on the test's recording day, every selected secondary source gets its
\* three clips attached to the 12:28:00, 14:55:52 and 16:32:12 groups in
\* creation order, nothing is attached to the 12:17:33 group, and the four
\* groups keep their start times and order.
C6_ExampleAssignment ==
    (pc = "done" /\ returned) =>
        /\ [i \in 1..Len(groups) |-> groups[i].start_time] = <<44253, 44880, 53752, 59532>>
        /\ \A i \in 1..Len(groups) : NamesInGroup(groups[i], PRIMARY) = <<ExampleAudio[i].path[2]>>
        /\ EOS \in Range(selected_sources) =>
              [i \in 1..Len(groups) |-> NamesInGroup(groups[i], EOS)]
                  = << <<>>, <<"DSCF0008.MOV">>, <<"DSCF0009.MOV">>, <<"DSCF0010.MOV">> >>
        /\ NINJAV \in Range(selected_sources) =>
              [i \in 1..Len(groups) |-> NamesInGroup(groups[i], NINJAV)]
                  = << <<>>, <<"NINJAV_S001_S001_T832.MOV">>,
                       <<"NINJAV_S001_S001_T833.MOV">>, <<"NINJAV_S001_S001_T834.MOV">> >>
        /\ \A s \in SourceNames \ Range(selected_sources) :
              \A i \in 1..Len(groups) : NamesInGroup(groups[i], s) = <<>>

C6_Witness ==
    /\ pc = "done" /\ returned
    /\ selected_sources = <<PRIMARY, EOS, NINJAV>>
    /\ Len(groups) = 4
    /\ Len(groups[2].files) = 3
    /\ matches_from_outside_day_filter = [n \in {EOS, NINJAV} |-> IF n = EOS THEN 2 ELSE 3]

----------------------------------------------------------------------------
(* group_files_by_start_time on arbitrary file lists *)

MaxClusterFiles == 3
MaxClusterTime == 3
MaxClusterWindow == 1

ClusterSources == {PRIMARY, NINJAV}

InitCluster ==
    /\ pc = "scanned"
    /\ tree = [s \in SourceNames |-> <<>>]
    /\ ffprobe = TRUE
    /\ selected_sources = <<>>
    /\ window \in 0..MaxClusterWindow
    /\ \E n \in 0..MaxClusterFiles :
         \E source \in [1..n -> ClusterSources], created_at \in [1..n -> 0..MaxClusterTime] :
            day_matched_files =
                [i \in 1..n |-> MediaFile(source[i], <<source[i], i>>, created_at[i])]
    /\ InitAlignVars
    /\ InitRest

SpecCluster == InitCluster /\ [][Cluster]_vars

\* How often a file occurs in the file lists of the groups.
Occurrences(gs, f) ==
    Cardinality(UNION {{<<g, i>> : i \in {k \in 1..Len(gs[g].files) : gs[g].files[k] = f}} :
                          g \in 1..Len(gs)})

InputOccurrences(files, f) == Cardinality({i \in 1..Len(files) : files[i] = f})

AscendingCreatedAt(files) ==
    \A i \in 1..(Len(files) - 1) : files[i].created_at <= files[i + 1].created_at

\* C1: the groups returned by group_files_by_start_time partition the input:
\* every input file is in exactly one group exactly once, no other file is in
\* a group, no group is empty, and every group's files ascend by created_at.
C1_ClusterPartition ==
    pc = "clustered" =>
        /\ \A f \in Range(day_matched_files) :
              Occurrences(groups, f) = InputOccurrences(day_matched_files, f)
        /\ \A g \in Range(groups) :
              /\ g.files # <<>>
              /\ Range(g.files) \subseteq Range(day_matched_files)
              /\ AscendingCreatedAt(g.files)

C1_Witness ==
    /\ pc = "clustered"
    /\ Len(groups) >= 2
    /\ \E g \in Range(groups) : \E i \in 1..(Len(g.files) - 1) :
          /\ g.files[i].source = g.files[i + 1].source
          /\ g.files[i].created_at = g.files[i + 1].created_at

InputPermutations(files) ==
    {Reordered(files, perm) : perm \in Permutations(1..Len(files))}

\* C10 as claimed: every permutation of the input list gives the identical
\* output, ties in created_at included.
C10_IdenticalOutput ==
    pc = "clustered" =>
        \A files \in InputPermutations(day_matched_files) :
            group_files_by_start_time(files, window) = groups

\* C10 amended: every permutation of the input list gives the same number of
\* groups, the same start_times and, group by group, the same set of files and
\* the same sequence of created_at values; the output is identical when no two
\* input files have the same created_at.
C10_SameUpToTies ==
    pc = "clustered" =>
        \A files \in InputPermutations(day_matched_files) :
            LET other == group_files_by_start_time(files, window)
            IN  /\ Len(other) = Len(groups)
                /\ \A i \in 1..Len(groups) :
                      /\ other[i].start_time = groups[i].start_time
                      /\ Range(other[i].files) = Range(groups[i].files)
                      /\ Len(other[i].files) = Len(groups[i].files)
                      /\ \A k \in 1..Len(groups[i].files) :
                            other[i].files[k].created_at = groups[i].files[k].created_at
                /\ (\A i, j \in 1..Len(day_matched_files) :
                       i # j => day_matched_files[i].created_at # day_matched_files[j].created_at)
                   => other = groups

C10_Witness ==
    /\ pc = "clustered"
    /\ Len(groups) >= 2
    /\ \E files \in InputPermutations(day_matched_files) :
          /\ files # day_matched_files
          /\ group_files_by_start_time(files, window) # groups

----------------------------------------------------------------------------
(* Properties of the run *)

Aligned == pc = "done" /\ returned

\* The matches of the run as records: the loop iteration (one per secondary
\* source), the anchor index and the file.
Attached ==
    UNION {{[iteration |-> k, source |-> monotonic_matches[k].source,
             anchor_index |-> m[1], file |-> m[2]] :
                m \in Range(monotonic_matches[k].matches)} :
           k \in 1..Len(monotonic_matches)}

\* The positions, in the group list, of the groups that hold the file.
GroupsHolding(f) == {i \in 1..Len(groups) : f \in Range(groups[i].files)}

\* C2 as claimed: any two files attached by duration matching, of whatever
\* sources, sit in groups ordered like their created_at.
C2_OrderAcrossSources ==
    Aligned =>
        \A a, b \in Attached :
            b.file.created_at > a.file.created_at =>
                \A i \in GroupsHolding(a.file), j \in GroupsHolding(b.file) : j >= i

\* C2 amended: two files of the same secondary source attached by duration
\* matching sit in groups ordered like their created_at.
C2_OrderWithinSource ==
    Aligned =>
        \A a, b \in Attached :
            (a.source = b.source /\ b.file.created_at > a.file.created_at) =>
                \A i \in GroupsHolding(a.file), j \in GroupsHolding(b.file) : j >= i

C2_Witness ==
    /\ Aligned
    /\ \E a, b \in Attached :
          /\ a.source = b.source
          /\ b.file.created_at > a.file.created_at
          /\ \E i \in GroupsHolding(a.file), j \in GroupsHolding(b.file) : j > i

\* Four times max(5.0, 0.25 * d_g), d_g in centiseconds.
FourTimesAllowed(d_g) == IF d_g > 2000 THEN d_g ELSE 2000

DurationOf(f) == Value(Entry(f.path).duration)

\* C3: the duration of an attached file differs from the target duration of
\* its group by at most max(5.0, 0.25 * d_g), and a candidate whose difference
\* equals that maximum is scored as admissible.
C3_DurationTolerance ==
    /\ \A a \in Attached :
          4 * Abs(DurationOf(a.file) - Value(group_targets[a.anchor_index]))
              <= FourTimesAllowed(Value(group_targets[a.anchor_index]))
    /\ \A k \in 1..Len(monotonic_matches) :
          \A c \in Range(MatchableCandidates(monotonic_matches[k].candidates)) :
              \A i \in Range(primary_anchor_indices) :
                  4 * Abs(c[2] - Value(group_targets[i]))
                        = FourTimesAllowed(Value(group_targets[i]))
                    => score_candidate_to_anchor(c[1], c[2], i, group_anchor_times,
                                                 group_targets) # None

\* Both regimes at their limit in one run: 13 s against a target of 8 s and
\* 50 s against a target of 40 s.
C3_Witness ==
    /\ Aligned
    /\ \E a, b \in Attached :
          /\ Value(group_targets[a.anchor_index]) <= 2000
          /\ 4 * Abs(DurationOf(a.file) - Value(group_targets[a.anchor_index])) = 2000
          /\ Value(group_targets[b.anchor_index]) > 2000
          /\ 4 * Abs(DurationOf(b.file) - Value(group_targets[b.anchor_index]))
                = Value(group_targets[b.anchor_index])

\* C5: within one loop iteration no file is matched twice and no group is
\* matched twice, no group holds two files of one secondary source, and after
\* the run no file is held by two groups or twice by one.
C5_OneToOne ==
    /\ \A a, b \in Attached :
          (a.iteration = b.iteration /\ a # b) =>
              (a.file # b.file /\ a.anchor_index # b.anchor_index)
    /\ \A a, b \in Attached :
          (a.source = b.source /\ a # b) => a.anchor_index # b.anchor_index
    /\ Aligned =>
          \A g \in Range(groups) : \A f \in Range(g.files) : Occurrences(groups, f) = 1

\* Two sources, two matches each: the same two groups receive one file of each.
C5_Witness ==
    /\ Aligned
    /\ \E g, h \in 1..Len(groups) :
          /\ g # h
          /\ \A i \in {g, h} :
                \E a, b \in Attached :
                    /\ a.source # b.source
                    /\ a.anchor_index = i /\ b.anchor_index = i
                    /\ {a.file, b.file} \subseteq Range(groups[i].files)

\* The files of a source, in the final groups, created outside [day_start, day_end).
OutsideDayCount(source) ==
    Cardinality({f \in UNION {Range(g.files) : g \in Range(groups)} :
                    f.source = source /\ (f.created_at < DayStart \/ f.created_at >= DayEnd)})

\* C7: the returned mapping has an entry for a selected source exactly when
\* some of its matched files lie outside the day, the entry is their number,
\* and the primary source has no entry.
C7_OutsideDayMapping ==
    Aligned =>
        /\ DOMAIN matches_from_outside_day_filter \subseteq Range(selected_sources)
        /\ \A s \in Range(selected_sources) :
              /\ s \in DOMAIN matches_from_outside_day_filter <=> OutsideDayCount(s) > 0
              /\ s \in DOMAIN matches_from_outside_day_filter =>
                    matches_from_outside_day_filter[s] = OutsideDayCount(s)
        /\ primary_source_name # None =>
              Value(primary_source_name) \notin DOMAIN matches_from_outside_day_filter

\* A source with one match inside the day and one at day_end exactly.
C7_Witness ==
    /\ Aligned
    /\ \E s \in DOMAIN matches_from_outside_day_filter :
          /\ matches_from_outside_day_filter[s] = 1
          /\ \E a, b \in Attached :
                /\ a.source = s /\ b.source = s
                /\ b.file.created_at = DayEnd
                /\ a.file.created_at < DayEnd

MinCreatedAt(files) ==
    CHOOSE t \in {f.created_at : f \in Range(files)} :
        \A f \in Range(files) : t <= f.created_at

\* C8 as claimed: after clustering and after alignment, start_time is the
\* minimum created_at among the group's files.
C8_StartTimeIsMinimum ==
    (pc = "clustered" \/ Aligned) =>
        \A g \in Range(groups) : g.start_time = MinCreatedAt(g.files)

\* C8 amended: as produced by clustering, start_time is the minimum created_at
\* among the group's files; alignment leaves start_time as it was, the minimum
\* created_at among the files the group had on entry, and no primary-source
\* file of the group is older than it.
C8_StartTimeIsEntryMinimum ==
    /\ pc = "clustered" =>
          \A g \in Range(groups) : g.start_time = MinCreatedAt(g.files)
    /\ Aligned =>
          \A g \in Range(groups) :
              /\ \E e \in Range(groups_at_entry) :
                    /\ e.start_time = g.start_time
                    /\ e.start_time = MinCreatedAt(e.files)
                    /\ primary_source_name # None =>
                          FilesOfSource(g.files, Value(primary_source_name))
                              = FilesOfSource(e.files, Value(primary_source_name))
              /\ primary_source_name # None =>
                    \A f \in Range(FilesOfSource(g.files, Value(primary_source_name))) :
                        g.start_time <= f.created_at

\* A group that lost its oldest file to the filter and one that received a
\* file older than its start_time.
C8_Witness ==
    /\ Aligned
    /\ \E g \in Range(groups) :
          /\ g.start_time < MinCreatedAt(g.files)
          /\ Len(g.files) >= 2
    /\ \E a \in Attached : a.file.created_at < groups[a.anchor_index].start_time

StartTimes(gs) == [i \in 1..Len(gs) |-> gs[i].start_time]

\* s is t with some elements left out.
RECURSIVE IsSubList(_, _)
IsSubList(s, t) ==
    IF s = <<>> THEN TRUE
    ELSE IF t = <<>> THEN FALSE
    ELSE IF Head(s) = Head(t) THEN IsSubList(Tail(s), Tail(t))
    ELSE IsSubList(s, Tail(t))

\* C9: when alignment returns, the group list is a sub-list of the groups it
\* received (same start_times, same order, no group added), no remaining
\* group is empty, a group left without a file by the filter is gone, and
\* every file list ascends by created_at.
C9_NoNewGroups ==
    Aligned =>
        /\ IsSubList(StartTimes(groups), StartTimes(groups_at_entry))
        /\ Len(groups) <= Len(groups_at_entry)
        /\ \A g \in Range(groups) : g.files # <<>> /\ AscendingCreatedAt(g.files)
        /\ primary_source_name # None =>
              \A e \in Range(groups_at_entry) :
                  FilesOfSource(e.files, Value(primary_source_name)) = <<>> =>
                      \A g \in Range(groups) : g.start_time # e.start_time

\* A group was dropped and a surviving group received an older file.
C9_Witness ==
    /\ Aligned
    /\ Len(groups) < Len(groups_at_entry)
    /\ \E a \in Attached :
          /\ a.file.created_at < groups[a.anchor_index].start_time
          /\ Len(groups[a.anchor_index].files) >= 2

----------------------------------------------------------------------------
(* _select_monotonic_matches on arbitrary candidates and anchors *)

MaxSelectCandidates == 3
MaxSelectAnchors == 2

SelectTimes == {100, 200, 300}

\* Candidates of 10 s, 13 s and 50 s, and one that ffprobe gives nothing for.
SelectKinds ==
    {Kind(100, Some(1000)), Kind(300, Some(1000)), Kind(200, Some(1300)),
     Kind(300, Some(5000)), Kind(200, None)}

SelectTargets == {None, Some(800), Some(4000)}

CandidatesOfListing(source) ==
    [i \in 1..Len(tree[source]) |->
        MediaFile(source, tree[source][i].path, Value(tree[source][i].created_at))]

InitSelect ==
    /\ pc = "select"
    /\ \E kinds \in SeqsUpTo(SelectKinds, MaxSelectCandidates) :
          tree = [s \in SourceNames |-> IF s = EOS THEN Listing(s, kinds) ELSE <<>>]
    /\ ffprobe = TRUE
    /\ selected_sources = <<PRIMARY, EOS>>
    /\ window = 300
    /\ day_matched_files = <<>>
    /\ groups = <<>>
    /\ groups_at_entry = <<>>
    /\ primary_source_name = Some(PRIMARY)
    /\ \E n \in 1..MaxSelectAnchors :
          /\ group_anchor_times \in
                {times \in [1..n -> SelectTimes] :
                    \A i \in 1..(n - 1) : times[i] < times[i + 1]}
          /\ group_targets \in [1..n -> SelectTargets]
    /\ primary_anchor_indices = PrimaryAnchorIndices(group_targets)
    /\ source_index = 0
    /\ monotonic_matches = <<>>
    /\ matches_from_outside_day_filter = EmptyMap
    /\ returned = FALSE
    /\ InitRest

\* One call of _select_monotonic_matches, as in line 440.
SelectCall ==
    /\ pc = "select"
    /\ pc' = "selected"
    /\ monotonic_matches' =
          <<[source |-> EOS, candidates |-> CandidatesOfListing(EOS),
             matches |-> select_monotonic_matches(CandidatesOfListing(EOS),
                             primary_anchor_indices, group_anchor_times, group_targets)]>>
    /\ UNCHANGED <<env_vars, rest_vars, day_matched_files, groups, groups_at_entry,
                   primary_source_name, group_anchor_times, group_targets,
                   primary_anchor_indices, source_index,
                   matches_from_outside_day_filter, returned>>

SpecSelect == InitSelect /\ [][SelectCall]_vars

\* The probe-able candidates of a loop iteration, in created_at order (ties in
\* list order), each with its duration.
Probeable(r) == MatchableCandidates(SortedByCreatedAt(r.candidates))

\* The order-preserving, one-to-one, admissible assignments: assignment[i] is
\* the position, among the groups with a known target, of the group candidate
\* i is matched to, or 0.
Assignments(r) ==
    LET cs == Probeable(r)
        target(p) == Value(group_targets[primary_anchor_indices[p]])
    IN  {assignment \in [1..Len(cs) -> 0..Len(primary_anchor_indices)] :
            /\ \A i, j \in 1..Len(cs) :
                  (i < j /\ assignment[i] > 0 /\ assignment[j] > 0) =>
                      assignment[i] < assignment[j]
            /\ \A i \in 1..Len(cs) :
                  assignment[i] > 0 =>
                      4 * Abs(cs[i][2] - target(assignment[i]))
                          <= FourTimesAllowed(target(assignment[i]))}

RECURSIVE AssignmentCost(_, _, _)
AssignmentCost(r, assignment, n) ==
    IF n = 0 THEN <<0, 0, 0>>
    ELSE LET before == AssignmentCost(r, assignment, n - 1)
             c == Probeable(r)[n]
             index == primary_anchor_indices[assignment[n]]
         IN  IF assignment[n] = 0 THEN before
             ELSE <<before[1] + 1,
                    before[2] + Abs(c[2] - Value(group_targets[index])),
                    before[3] + Abs(c[1].created_at - group_anchor_times[index])>>

Cost(r, assignment) == AssignmentCost(r, assignment, Len(Probeable(r)))

RECURSIVE AssignmentMatches(_, _, _)
AssignmentMatches(r, assignment, n) ==
    IF n = 0 THEN <<>>
    ELSE IF assignment[n] = 0 THEN AssignmentMatches(r, assignment, n - 1)
    ELSE Append(AssignmentMatches(r, assignment, n - 1),
                <<primary_anchor_indices[assignment[n]], Probeable(r)[n][1]>>)

\* More matches, or as many and less duration cost, or as many, the same
\* duration cost and less time cost.
Beats(x, y) ==
    \/ x[1] > y[1]
    \/ x[1] = y[1] /\ x[2] < y[2]
    \/ x[1] = y[1] /\ x[2] = y[2] /\ x[3] < y[3]

\* C4: the match set of every loop iteration is one of the order-preserving,
\* one-to-one, admissible assignments, and no such assignment has more
\* matches, or as many with less total duration_delta, or as many with the
\* same total duration_delta and less total time_delta.
C4_OptimalAssignment ==
    \A k \in 1..Len(monotonic_matches) :
        LET r == monotonic_matches[k]
        IN  \E chosen \in Assignments(r) :
                /\ AssignmentMatches(r, chosen, Len(Probeable(r))) = r.matches
                /\ \A other \in Assignments(r) : ~Beats(Cost(r, other), Cost(r, chosen))

\* Each level of the priority decides: some assignment has fewer matches, one
\* has as many with more duration cost, one differs only in time cost.
C4_Witness ==
    /\ pc = "selected"
    /\ LET r == monotonic_matches[1]
       IN  \E chosen \in Assignments(r) :
              /\ AssignmentMatches(r, chosen, Len(Probeable(r))) = r.matches
              /\ Len(r.matches) >= 1
              /\ \E other \in Assignments(r) :
                    Cost(r, other)[1] < Len(r.matches)
              /\ \E other \in Assignments(r) :
                    /\ Cost(r, other)[1] = Len(r.matches)
                    /\ Cost(r, other)[2] > Cost(r, chosen)[2]
              /\ \E other \in Assignments(r) :
                    /\ Cost(r, other)[1] = Len(r.matches)
                    /\ Cost(r, other)[2] = Cost(r, chosen)[2]
                    /\ Cost(r, other)[3] > Cost(r, chosen)[3]

----------------------------------------------------------------------------
(* The materializer: episode numbering, destination planning, copying *)

\* A file name is its Path.stem, a sequence of tokens, and its Path.suffix:
\* "input.wav" is <<"input">> with ".wav", "input_1.wav" is <<"input", 1>>
\* with ".wav", so that f"{stem}_{counter}{suffix}" appends a token.
FileName(stem, suffix) == [stem |-> stem, suffix |-> suffix]

PathName(path) == path[Len(path)]

PODCAST == "podcast"

\* podcast_root / f"episode_{number}" / name
EpisodePath(episode_dir, name) == <<PODCAST, episode_dir, name>>

\* candidate.with_name(f"{stem}_{counter}{suffix}")
WithCounter(candidate, counter) ==
    EpisodePath(candidate[2],
                FileName(Append(PathName(candidate).stem, counter),
                         PathName(candidate).suffix))

EpisodeGroup(episode_dir, start_time, files) ==
    [episode_dir |-> episode_dir, start_time |-> start_time, files |-> files]

RECURSIVE SortedNumbers(_)
SortedNumbers(numbers) ==
    IF numbers = {} THEN <<>>
    ELSE LET least == CHOOSE n \in numbers : \A m \in numbers : n <= m
         IN  <<least>> \o SortedNumbers(numbers \ {least})

\* Lines 501-513: the numbers of the directories named episode_N.
find_existing_episode_numbers(exists, dirs) ==
    IF ~exists THEN <<>> ELSE SortedNumbers(dirs)

\* The while loop of lines 522-526.
RECURSIVE AllocateLoop(_, _, _, _)
AllocateLoop(directories, next_number, group_count, taken) ==
    IF ~(Len(directories) < group_count) THEN directories
    ELSE AllocateLoop(IF next_number \notin taken
                      THEN Append(directories, next_number) ELSE directories,
                      next_number + 1, group_count, taken)

\* Mutant: numbering restarts at the first free number.
FirstFreeNumber(existing) == 1

NextEpisodeNumber(existing) ==
    IF existing # <<>> THEN existing[Len(existing)] + 1 ELSE 1

\* Lines 516-528, after podcast_root.mkdir: dirs and plain are the entries of
\* podcast_root named episode_N, directories and others.
allocate_episode_directories(dirs, plain, group_count) ==
    LET existing == find_existing_episode_numbers(TRUE, dirs)
    IN  AllocateLoop(<<>>, NextEpisodeNumber(existing), group_count, dirs \cup plain)

\* Lines 543-551: the first of stem_1, stem_2, ... that is free.
RECURSIVE NextCandidate(_, _, _, _)
NextCandidate(candidate, counter, existing, reserved_paths) ==
    LET next_candidate == WithCounter(candidate, counter)
    IN  IF next_candidate \notin existing /\ next_candidate \notin reserved_paths
        THEN next_candidate
        ELSE NextCandidate(candidate, counter + 1, existing, reserved_paths)

\* Mutant: only the disk is consulted, not the names reserved in this batch.
TakenOnDisk(candidate, existing, reserved_paths) == candidate \in existing

Taken(candidate, existing, reserved_paths) ==
    candidate \in existing \/ candidate \in reserved_paths

\* The loop of lines 540-554.
RECURSIVE PlanLoop(_, _, _, _, _)
PlanLoop(files, episode_dir, existing, planned, reserved_paths) ==
    IF files = <<>> THEN planned
    ELSE LET media_file == Head(files)
             first == EpisodePath(episode_dir, PathName(media_file.path))
             candidate == IF Taken(first, existing, reserved_paths)
                          THEN NextCandidate(first, 1, existing, reserved_paths)
                          ELSE first
         IN  PlanLoop(Tail(files), episode_dir, existing,
                      Append(planned, candidate), reserved_paths \cup {candidate})

\* Lines 536-556; existing is the set of paths for which exists() is true.
plan_group_destinations(files, episode_dir, existing) ==
    PlanLoop(files, episode_dir, existing, <<>>, {})

MAX_WORKERS == 8

\* Line 565, total_files.
RECURSIVE TotalFiles(_)
TotalFiles(gs) ==
    IF gs = <<>> THEN 0 ELSE Len(Head(gs).files) + TotalFiles(Tail(gs))

\* Lines 584-593: the jobs of one group.
GroupJobs(index, files, destinations) ==
    [k \in 1..Len(files) |->
        [group_index |-> index, file |-> files[k], destination |-> destinations[k]]]

\* Lines 595-605: the dry run's answer, the jobs in planning order.
RECURSIVE DryRunGroups(_, _)
DryRunGroups(egs, jobs) ==
    IF jobs = <<>> THEN egs
    ELSE LET job == Head(jobs)
             moved == MediaFile(job.file.source, job.destination, job.file.created_at)
         IN  DryRunGroups([egs EXCEPT ![job.group_index].files = Append(@, moved)],
                          Tail(jobs))

\* Mutant: the pool has a worker for every job.
StartAllQueued(states, running_limit) ==
    [j \in 1..Len(states) |-> IF states[j] = "queued" THEN "running" ELSE states[j]]

\* The jobs the pool starts at once: the first max_workers of the queue.
StartQueued(states, running_limit) ==
    [j \in 1..Len(states) |->
        IF states[j] = "queued"
           /\ Cardinality({i \in 1..j : states[i] \in {"queued", "running"}})
                  <= running_limit
        THEN "running" ELSE states[j]]

Started(before, after) ==
    [j \in 1..Len(after) |-> IF before[j] # "running" /\ after[j] = "running" THEN 1 ELSE 0]

\* Lines 559-583: allocate_episode_directories and the empty EpisodeGroups.
MatAllocate ==
    /\ mat_pc = "called"
    /\ root_exists' = TRUE
    /\ episode_directories' =
          allocate_episode_directories(episode_dirs, episode_plain, Len(mat_groups))
    /\ episode_groups' =
          [i \in 1..Len(mat_groups) |->
              EpisodeGroup(episode_directories'[i], mat_groups[i].start_time, <<>>)]
    /\ copy_jobs' = <<>>
    /\ group_index' = 1
    /\ mat_pc' = "plan"
    /\ UNCHANGED <<dry_run, mat_groups, episode_dirs, episode_plain, episode_files,
                   job_state, copy_failures, mat_result, attempts, at_entry, dry_plan,
                   not_mat_vars>>

\* One iteration of the loop of lines 585-593: mkdir, then the plan.
MatPlanGroup ==
    /\ mat_pc = "plan"
    /\ group_index <= Len(mat_groups)
    /\ LET episode_dir == episode_directories[group_index]
           group == mat_groups[group_index]
       IN  IF ~dry_run /\ episode_dir \in episode_dirs \cup episode_plain
           THEN /\ mat_result' = "FileExistsError"
                /\ mat_pc' = "done"
                /\ UNCHANGED <<episode_dirs, copy_jobs, group_index>>
           ELSE /\ episode_dirs' = IF dry_run THEN episode_dirs
                                   ELSE episode_dirs \cup {episode_dir}
                /\ copy_jobs' = copy_jobs \o
                      GroupJobs(group_index, group.files,
                                plan_group_destinations(group.files, episode_dir,
                                                        episode_files))
                /\ group_index' = group_index + 1
                /\ UNCHANGED <<mat_pc, mat_result>>
    /\ UNCHANGED <<dry_run, mat_groups, root_exists, episode_plain, episode_files,
                   episode_directories, job_state, copy_failures, episode_groups,
                   attempts, at_entry, dry_plan, not_mat_vars>>

\* Lines 595-605.
MatDryRunReturn ==
    /\ mat_pc = "plan"
    /\ group_index > Len(mat_groups)
    /\ dry_run
    /\ episode_groups' = DryRunGroups(episode_groups, copy_jobs)
    /\ mat_result' = "returned"
    /\ mat_pc' = "done"
    /\ UNCHANGED <<dry_run, mat_groups, disk_vars, episode_directories, group_index,
                   copy_jobs, job_state, copy_failures, attempts, at_entry, dry_plan,
                   not_mat_vars>>

\* Lines 607-615: every job is submitted to the pool.
MatSubmit ==
    /\ mat_pc = "plan"
    /\ group_index > Len(mat_groups)
    /\ ~dry_run
    /\ LET max_workers == IF Max(TotalFiles(mat_groups), 1) <= MAX_WORKERS
                          THEN Max(TotalFiles(mat_groups), 1) ELSE MAX_WORKERS
           queued == [j \in 1..Len(copy_jobs) |-> "queued"]
       IN  /\ job_state' = StartQueued(queued, max_workers)
           /\ attempts' = Started(queued, job_state')
    /\ copy_failures' = <<>>
    /\ mat_pc' = "copy"
    /\ UNCHANGED <<dry_run, mat_groups, disk_vars, episode_directories, group_index,
                   copy_jobs, episode_groups, mat_result, at_entry, dry_plan,
                   not_mat_vars>>

\* Mutant: only the first failure is kept.
RecordFirstFailure(failures, job) ==
    IF failures = <<>> THEN <<job.file.path>> ELSE failures

\* Lines 628-629: the failure message names the source path.
RecordFailure(failures, job) == Append(failures, job.file.path)

\* copy_file_to_destination ends for one job and as_completed hands it to
\* lines 617-630; the worker that ran it takes the next job of the queue.
MatCopyCompletes(j, ok) ==
    /\ mat_pc = "copy"
    /\ j \in 1..Len(copy_jobs)
    /\ job_state[j] = "running"
    /\ LET job == copy_jobs[j]
           max_workers == IF Max(TotalFiles(mat_groups), 1) <= MAX_WORKERS
                          THEN Max(TotalFiles(mat_groups), 1) ELSE MAX_WORKERS
           ended == [job_state EXCEPT ![j] = IF ok THEN "ok" ELSE "failed"]
       IN  /\ job_state' = StartQueued(ended, max_workers)
           /\ attempts' = [i \in 1..Len(attempts) |->
                              attempts[i] + Started(ended, job_state')[i]]
           /\ IF ok
              THEN /\ episode_files' = episode_files \cup {job.destination}
                   /\ episode_groups' =
                         [episode_groups EXCEPT ![job.group_index].files =
                             Append(@, MediaFile(job.file.source, job.destination,
                                                 job.file.created_at))]
                   /\ UNCHANGED copy_failures
              ELSE /\ copy_failures' = RecordFailure(copy_failures, job)
                   /\ UNCHANGED <<episode_files, episode_groups>>
    /\ UNCHANGED <<mat_pc, dry_run, mat_groups, root_exists, episode_dirs, episode_plain,
                   episode_directories, group_index, copy_jobs, mat_result, at_entry,
                   dry_plan, not_mat_vars>>

\* Lines 632-638.
MatFinish ==
    /\ mat_pc = "copy"
    /\ \A j \in 1..Len(copy_jobs) : job_state[j] \in {"ok", "failed"}
    /\ IF copy_failures # <<>>
       THEN /\ mat_result' = "RuntimeError"
            /\ UNCHANGED episode_groups
       ELSE /\ mat_result' = "returned"
            /\ episode_groups' =
                  [i \in 1..Len(episode_groups) |->
                      [episode_groups[i] EXCEPT !.files = SortedByCreatedAt(@)]]
    /\ mat_pc' = "done"
    /\ UNCHANGED <<dry_run, mat_groups, disk_vars, episode_directories, group_index,
                   copy_jobs, job_state, copy_failures, attempts, at_entry, dry_plan,
                   not_mat_vars>>

\* Another process creates one of the allocated directories before the run
\* reaches its mkdir.
OtherProcessMkdir ==
    /\ mat_pc = "plan"
    /\ ~dry_run
    /\ \E i \in group_index..Len(episode_directories) :
          /\ episode_directories[i] \notin episode_dirs
          /\ episode_dirs' = episode_dirs \cup {episode_directories[i]}
    /\ UNCHANGED <<mat_pc, dry_run, mat_groups, root_exists, episode_plain, episode_files,
                   episode_directories, group_index, copy_jobs, job_state, copy_failures,
                   episode_groups, mat_result, attempts, at_entry, dry_plan,
                   not_mat_vars>>

\* The live run that follows a dry run, from the disk the dry run started on.
LiveAfterDryRun ==
    /\ mat_pc = "done"
    /\ dry_run
    /\ dry_plan = None
    /\ dry_plan' = Some(copy_jobs)
    /\ dry_run' = FALSE
    /\ root_exists' = at_entry.root_exists
    /\ episode_dirs' = at_entry.episode_dirs
    /\ episode_plain' = at_entry.episode_plain
    /\ episode_files' = at_entry.episode_files
    /\ mat_pc' = "called"
    /\ episode_directories' = <<>>
    /\ group_index' = 0
    /\ copy_jobs' = <<>>
    /\ episode_groups' = <<>>
    /\ mat_result' = "none"
    /\ UNCHANGED <<mat_groups, job_state, copy_failures, attempts, at_entry, not_mat_vars>>

\* One call of move_groups_to_episodes.
NextCall ==
    \/ MatAllocate
    \/ MatPlanGroup
    \/ MatDryRunReturn
    \/ MatSubmit
    \/ \E j \in 1..Len(copy_jobs), ok \in BOOLEAN : MatCopyCompletes(j, ok)
    \/ MatFinish
    \/ OtherProcessMkdir

NextMaterialize == NextCall \/ LiveAfterDryRun

\* The scan, cluster and align run is not part of this specification.
InitPipelineIdle ==
    /\ pc = "idle"
    /\ tree = [s \in SourceNames |-> <<>>]
    /\ ffprobe = FALSE
    /\ selected_sources = <<>>
    /\ window = 0
    /\ day_matched_files = <<>>
    /\ groups = <<>>
    /\ InitAlignVars

MaxMatGroups == 2

InputWav == FileName(<<"input">>, ".wav")
InputOneWav == FileName(<<"input", 1>>, ".wav")

\* input.wav of the recorder (12:17:33) and input.wav of a camera (12:28:00).
AudioInput == MediaFile(PRIMARY, <<PRIMARY, InputWav>>, 44253)
CameraInput == MediaFile(EOS, <<EOS, InputWav>>, 44880)

\* A group of one file, and a group of two files that share their base name and
\* are not in created_at order.
MatGroupKinds ==
    {MediaGroup(44253, <<AudioInput>>), MediaGroup(44253, <<CameraInput, AudioInput>>)}

ExistingEpisodes == 1..2

\* The entries of podcast_root named episode_N: none, a directory or a file.
DiskKinds ==
    {[root_exists |-> FALSE, episode_dirs |-> {}, episode_plain |-> {},
      episode_files |-> {}]}
    \cup {[root_exists |-> TRUE, episode_dirs |-> d, episode_plain |-> f,
           episode_files |-> {}] :
              d \in SUBSET ExistingEpisodes, f \in SUBSET ExistingEpisodes}

InitCall ==
    /\ episode_directories = <<>>
    /\ group_index = 0
    /\ copy_jobs = <<>>
    /\ job_state = <<>>
    /\ copy_failures = <<>>
    /\ episode_groups = <<>>
    /\ mat_result = "none"
    /\ attempts = <<>>
    /\ dry_plan = None

InitMaterialize ==
    /\ InitPipelineIdle
    /\ mat_pc = "called"
    /\ dry_run \in BOOLEAN
    /\ mat_groups \in SeqsUpTo(MatGroupKinds, MaxMatGroups)
    /\ at_entry \in {d \in DiskKinds : d.episode_dirs \cap d.episode_plain = {}}
    /\ root_exists = at_entry.root_exists
    /\ episode_dirs = at_entry.episode_dirs
    /\ episode_plain = at_entry.episode_plain
    /\ episode_files = at_entry.episode_files
    /\ InitCall
    /\ InitRunIdle
    /\ InitFar

SpecMaterialize == InitMaterialize /\ [][NextMaterialize]_vars

----------------------------------------------------------------------------
(* Properties of the materializer *)

Disk ==
    [root_exists |-> root_exists, episode_dirs |-> episode_dirs,
     episode_plain |-> episode_plain, episode_files |-> episode_files]

\* The planning loop has run to its end.
Planned == mat_pc = "copy" \/ (mat_pc = "done" /\ mat_result # "FileExistsError")

\* The live run plans, file by file, the episode directory and destination
\* path the dry run from the same disk returned.
C11_SameDecisions ==
    (~dry_run /\ dry_plan # None /\ Planned) => copy_jobs = Value(dry_plan)

\* C11: a dry run creates no directory, neither podcast_root nor an episode
\* directory, and copies no file, and the live run from the same disk plans for
\* every file the episode directory and destination path the dry run returned.
C11_DryRunNoMutation ==
    /\ dry_run => Disk = at_entry
    /\ C11_SameDecisions

RECURSIVE SourcePaths(_)
SourcePaths(gs) ==
    IF gs = <<>> THEN {}
    ELSE {f.path : f \in Range(Head(gs).files)} \cup SourcePaths(Tail(gs))

Failed == {j \in 1..Len(job_state) : job_state[j] = "failed"}
Copied == {j \in 1..Len(job_state) : job_state[j] = "ok"}

\* C14: in a live call every planned copy job is attempted once, whatever
\* becomes of the others, and never again; the call raises RuntimeError exactly
\* when a copy failed, and the error lists exactly the source paths of the
\* failed jobs; every file copied stays at its destination; no destination is
\* the path of an original.
C14_CopyFailuresCollected ==
    /\ mat_pc = "copy" =>
          /\ \A j \in 1..Len(copy_jobs) : attempts[j] <= 1
          /\ Len(copy_failures) = Cardinality(Failed)
    /\ (mat_pc = "done" /\ mat_result \in {"returned", "RuntimeError"} /\ ~dry_run) =>
          /\ \A j \in 1..Len(copy_jobs) : attempts[j] = 1
          /\ (mat_result = "RuntimeError") <=> (Failed # {})
          /\ Len(copy_failures) = Cardinality(Failed)
          /\ Range(copy_failures) = {copy_jobs[j].file.path : j \in Failed}
          /\ \A j \in Copied : copy_jobs[j].destination \in episode_files
          /\ \A j \in 1..Len(copy_jobs) :
                copy_jobs[j].destination \notin SourcePaths(mat_groups)

\* Four jobs in two groups: two copies fail, two succeed, the call raises.
C14_Witness ==
    /\ mat_pc = "done"
    /\ mat_result = "RuntimeError"
    /\ Len(copy_jobs) = 4
    /\ Cardinality(Failed) = 2
    /\ \E j \in Failed, k \in Copied : j < k /\ copy_jobs[j].group_index = copy_jobs[k].group_index
    /\ \E j \in Failed, k \in Copied : k < j

\* The run is about to make the directory of the current group and the
\* directory is there.
MkdirClash ==
    /\ mat_pc = "plan"
    /\ ~dry_run
    /\ group_index <= Len(mat_groups)
    /\ episode_directories[group_index] \in episode_dirs \cup episode_plain

\* C16: the allocated directories are numbered above every episode_N
\* directory that existed when the call began, did not exist then, and are
\* handed to the groups in order; a live call that finds the directory of a
\* group in place when it is to create it raises at that step, with no copy
\* started and no further group planned.
C16_NoMerge ==
    /\ [](mat_pc \in {"plan", "copy", "done"} =>
            /\ Len(episode_directories) = Len(mat_groups)
            /\ \A i \in 1..Len(episode_directories) :
                  /\ episode_directories[i] \notin
                        at_entry.episode_dirs \cup at_entry.episode_plain
                  /\ \A n \in at_entry.episode_dirs : episode_directories[i] > n
                  /\ episode_groups[i].episode_dir = episode_directories[i]
                  /\ episode_groups[i].start_time = mat_groups[i].start_time
                  /\ \A j \in 1..(i - 1) : episode_directories[j] < episode_directories[i]
            /\ \A j \in 1..Len(copy_jobs) :
                  copy_jobs[j].destination[2] = episode_directories[copy_jobs[j].group_index]
            /\ mat_result = "FileExistsError" =>
                  /\ job_state = <<>>
                  /\ attempts = <<>>
                  /\ episode_files = at_entry.episode_files)
    /\ [][(MkdirClash /\ (mat_pc' # mat_pc \/ group_index' # group_index
                            \/ copy_jobs' # copy_jobs))
            => (mat_result' = "FileExistsError" /\ mat_pc' = "done"
                /\ copy_jobs' = copy_jobs)]_vars

\* Three entries were in podcast_root, a file among them; the first group got
\* its directory and another process made the second group's directory first.
C16_Witness ==
    /\ mat_result = "FileExistsError"
    /\ group_index = 2
    /\ at_entry.episode_dirs # {}
    /\ at_entry.episode_plain # {}
    /\ \E n \in at_entry.episode_plain : \A d \in at_entry.episode_dirs : d < n
    /\ Len(copy_jobs) >= 1

----------------------------------------------------------------------------
(* plan_group_destinations on an episode directory that holds files *)

MaxPlanFiles == 3

\* input.wav of two sources and input_1.wav of one of them.
PlanFileKinds ==
    {AudioInput, CameraInput, MediaFile(EOS, <<EOS, InputOneWav>>, 44890)}

\* What the episode directory may hold already.
PlanExistingNames ==
    {InputWav, InputOneWav, FileName(<<"input", 2>>, ".wav"),
     FileName(<<"input", 1, 1>>, ".wav")}

InitPlan ==
    /\ InitPipelineIdle
    /\ InitRunIdle
    /\ InitFar
    /\ mat_pc = "planning"
    /\ dry_run = FALSE
    /\ \E files \in SeqsUpTo(PlanFileKinds, MaxPlanFiles) :
          mat_groups = <<MediaGroup(44253, files)>>
    /\ \E names \in SUBSET PlanExistingNames :
          at_entry = [root_exists |-> TRUE, episode_dirs |-> {1}, episode_plain |-> {},
                      episode_files |-> {EpisodePath(1, name) : name \in names}]
    /\ root_exists = at_entry.root_exists
    /\ episode_dirs = at_entry.episode_dirs
    /\ episode_plain = at_entry.episode_plain
    /\ episode_files = at_entry.episode_files
    /\ InitCall

\* One call of plan_group_destinations, as in line 591.
PlanCall ==
    /\ mat_pc = "planning"
    /\ episode_directories' = <<1>>
    /\ copy_jobs' = GroupJobs(1, mat_groups[1].files,
                              plan_group_destinations(mat_groups[1].files, 1,
                                                      episode_files))
    /\ mat_pc' = "planned"
    /\ UNCHANGED <<dry_run, mat_groups, disk_vars, group_index, job_state, copy_failures,
                   episode_groups, mat_result, attempts, at_entry, dry_plan, not_mat_vars>>

SpecPlan == InitPlan /\ [][PlanCall]_vars

\* The paths that are taken when the k-th file is planned.
TakenBefore(k) == episode_files \cup {copy_jobs[i].destination : i \in 1..(k - 1)}

\* The least counter whose name is not in taken.
FirstFreeCounter(base, taken) ==
    CHOOSE c \in 1..(Cardinality(taken) + 1) :
        /\ WithCounter(base, c) \notin taken
        /\ \A b \in 1..(c - 1) : WithCounter(base, b) \in taken

\* C15: plan_group_destinations returns one destination per file, pairwise
\* distinct and none of them a path that exists in the episode directory; a
\* file whose base name is free keeps it, any other gets the first free name
\* among stem_1, stem_2, ... with its suffix.
C15_DistinctDestinations ==
    mat_pc = "planned" =>
        /\ Len(copy_jobs) = Len(mat_groups[1].files)
        /\ \A j, k \in 1..Len(copy_jobs) :
              j # k => copy_jobs[j].destination # copy_jobs[k].destination
        /\ \A k \in 1..Len(copy_jobs) :
              LET base == EpisodePath(1, PathName(mat_groups[1].files[k].path))
              IN  /\ copy_jobs[k].file = mat_groups[1].files[k]
                  /\ copy_jobs[k].destination \notin episode_files
                  /\ copy_jobs[k].destination =
                        IF base \notin TakenBefore(k) THEN base
                        ELSE WithCounter(base, FirstFreeCounter(base, TakenBefore(k)))

\* Three files called input.wav for a directory that holds input.wav and
\* input_1.wav: the third file gets a counter above 2.
C15_Witness ==
    /\ mat_pc = "planned"
    /\ Len(copy_jobs) = 3
    /\ \A k \in 1..3 : PathName(copy_jobs[k].file.path) = InputWav
    /\ {EpisodePath(1, InputWav), EpisodePath(1, InputOneWav)} \subseteq episode_files
    /\ \E k \in 1..3, c \in 3..5 :
          copy_jobs[k].destination = WithCounter(EpisodePath(1, InputWav), c)

----------------------------------------------------------------------------
(* cli.run *)

\* What run itself leaves alone in the scan and cluster state.
run_frame == <<pc, tree, ffprobe, window, align_vars, far_vars>>

Call(op, arg) == [op |-> op, arg |-> arg]

Exit(code) ==
    /\ run_pc' = "exit"
    /\ exit_code' = Some(code)

\* discover_sources: AudioHijack, then the volumes by name.
RunOptions == <<PRIMARY, EOS, NINJAV>>

\* Lines 146-148: AudioHijack is preselected, a volume only with --all-volumes.
Preselected(all_volumes) ==
    SelectSeq(RunOptions, LAMBDA name : name = PRIMARY \/ all_volumes)

\* normalize_selected_sources, lines 86-95.
normalize_selected_sources(sources, missing) ==
    SelectSeq(sources, LAMBDA name : name \notin missing)

\* Mutant: the confirmation is asked in a dry run too.
NeedsConfirmationNoYes(yes, dry) == ~yes

\* Line 184.
NeedsConfirmation(yes, dry) == ~yes /\ ~dry

\* Lines 133-137.
RunLoadSettings ==
    /\ run_pc = "start"
    /\ IF ~args.settings_ok
       THEN Exit(1)
       ELSE run_pc' = "sources" /\ UNCHANGED exit_code
    /\ UNCHANGED <<args, calls, selected_sources, day_matched_files, groups, run_frame,
                   mat_vars>>

\* Lines 145-158; toggled is what the user leaves selected at the prompt.
RunSelectSources(toggled) ==
    /\ run_pc = "sources"
    /\ LET chosen == IF args.yes \/ ~args.tty
                     THEN Preselected(args.all_volumes)
                     ELSE SelectSeq(RunOptions, LAMBDA name : name \in toggled)
       IN  /\ (args.yes \/ ~args.tty) => toggled = {PRIMARY}
           /\ selected_sources' = normalize_selected_sources(chosen, args.missing)
    /\ IF selected_sources' = <<>>
       THEN Exit(1)
       ELSE run_pc' = "scan" /\ UNCHANGED exit_code
    /\ UNCHANGED <<args, calls, day_matched_files, groups, run_frame, mat_vars>>

\* Lines 160-168.
RunScan ==
    /\ run_pc = "scan"
    /\ day_matched_files' = scan_sources_for_today_files(selected_sources, DayStart, DayEnd)
    /\ IF day_matched_files' = <<>>
       THEN Exit(0)
       ELSE run_pc' = "cluster" /\ UNCHANGED exit_code
    /\ UNCHANGED <<args, calls, selected_sources, groups, run_frame, mat_vars>>

\* Lines 170-173.
RunCluster ==
    /\ run_pc = "cluster"
    /\ groups' = group_files_by_start_time(day_matched_files, window)
    /\ IF groups' = <<>>
       THEN Exit(0)
       ELSE run_pc' = "confirm" /\ UNCHANGED exit_code
    /\ UNCHANGED <<args, calls, selected_sources, day_matched_files, run_frame, mat_vars>>

\* Lines 175-191.
RunConfirm(proceed) ==
    /\ run_pc = "confirm"
    /\ IF NeedsConfirmation(args.yes, dry_run)
       THEN /\ calls' = Append(calls, Call("confirm", <<>>))
            /\ IF proceed
               THEN run_pc' = "move" /\ UNCHANGED exit_code
               ELSE Exit(0)
       ELSE /\ proceed
            /\ run_pc' = "move"
            /\ UNCHANGED <<calls, exit_code>>
    /\ UNCHANGED <<args, selected_sources, day_matched_files, groups, run_frame, mat_vars>>

\* Lines 193-198: the call of move_groups_to_episodes.
RunMove ==
    /\ run_pc = "move"
    /\ calls' = Append(calls, Call("move", [groups |-> groups, dry_run |-> dry_run]))
    /\ mat_groups' = groups
    /\ mat_pc' = "called"
    /\ run_pc' = "moving"
    /\ UNCHANGED <<args, exit_code, pipeline_vars, far_vars, dry_run, disk_vars, episode_directories,
                   group_index, copy_jobs, job_state, copy_failures, episode_groups,
                   mat_result, attempts, at_entry, dry_plan>>

\* Lines 199-205: the RuntimeError of the copies, the dry run's return.
RunAfterMove ==
    /\ run_pc = "moving"
    /\ mat_pc = "done"
    /\ IF mat_result = "FileExistsError"
       THEN run_pc' = "raised" /\ UNCHANGED exit_code
       ELSE IF mat_result = "RuntimeError" THEN Exit(1)
       ELSE IF dry_run THEN Exit(0)
       ELSE run_pc' = "convert" /\ UNCHANGED exit_code
    /\ UNCHANGED <<args, calls, pipeline_vars, far_vars, mat_vars>>

\* Lines 207-209; code is what convert_mov_files returns.
RunConvert(code) ==
    /\ run_pc = "convert"
    /\ calls' = Append(calls, Call("convert", episode_groups))
    /\ IF code # 0
       THEN Exit(code)
       ELSE run_pc' = "upload" /\ UNCHANGED exit_code
    /\ UNCHANGED <<args, pipeline_vars, far_vars, mat_vars>>

\* Lines 211-219; code is what upload_episode_files_to_frameio returns.
RunUpload(code) ==
    /\ run_pc = "upload"
    /\ IF args.skip_frameio_upload
       THEN /\ code = 0
            /\ Exit(0)
            /\ UNCHANGED calls
       ELSE /\ calls' = Append(calls, Call("upload", episode_groups))
            /\ Exit(code)
    /\ UNCHANGED <<args, pipeline_vars, far_vars, mat_vars>>

NextRun ==
    \/ RunLoadSettings
    \/ \E toggled \in (SUBSET Range(RunOptions)) \ {{}} : RunSelectSources(toggled)
    \/ RunScan
    \/ RunCluster
    \/ \E proceed \in BOOLEAN : RunConfirm(proceed)
    \/ RunMove
    \/ NextCall
    \/ RunAfterMove
    \/ \E code \in 0..1 : RunConvert(code)
    \/ \E code \in 0..1 : RunUpload(code)

\* input_1.wav, input_2.wav, ... of a source, one per creation time.
RunListing(source, times) ==
    [i \in 1..Len(times) |->
        [path |-> <<source, FileName(<<"input", i>>, ".wav")>>, media |-> TRUE,
         hidden |-> FALSE,
         created_at |-> Some(times[i]), duration |-> None]]

\* The recorder holds nothing, one take (12:17:33) or two (and 12:28:00); the
\* camera volume holds nothing or one clip (12:17:40).
RunTrees ==
    {[s \in SourceNames |->
        IF s = PRIMARY THEN RunListing(s, audio)
        ELSE IF s = EOS THEN RunListing(s, video) ELSE <<>>] :
            audio \in {<<>>, <<44253>>, <<44253, 44880>>},
            video \in {<<>>, <<44260>>}}

RunDisks ==
    {d \in DiskKinds : d.episode_plain = {} /\ d.episode_dirs \in {{}, {1}}}

InitRun ==
    /\ pc = "idle"
    /\ tree \in RunTrees
    /\ ffprobe = TRUE
    /\ selected_sources = <<>>
    /\ window = 300
    /\ day_matched_files = <<>>
    /\ groups = <<>>
    /\ InitAlignVars
    /\ run_pc = "start"
    /\ args \in [yes : BOOLEAN, all_volumes : BOOLEAN, skip_frameio_upload : BOOLEAN,
                 settings_ok : BOOLEAN, tty : BOOLEAN,
                 missing : {{}, {EOS}, {PRIMARY}}]
    /\ calls = <<>>
    /\ exit_code = None
    /\ mat_pc = "idle"
    /\ dry_run \in BOOLEAN
    /\ mat_groups = <<>>
    /\ at_entry \in RunDisks
    /\ root_exists = at_entry.root_exists
    /\ episode_dirs = at_entry.episode_dirs
    /\ episode_plain = at_entry.episode_plain
    /\ episode_files = at_entry.episode_files
    /\ InitCall
    /\ InitFar

SpecRun == InitRun /\ [][NextRun]_vars

----------------------------------------------------------------------------
(* Properties of cli.run *)

CallsOf(op) == {k \in 1..Len(calls) : calls[k].op = op}

\* C12: a live run handles one group at a time, in start-time order: every
\* move, convert and upload call receives exactly one group, the convert and
\* the upload of a group come before the move of the next, and a run that has
\* uploaded its last group ends with a single delete call that covers the
\* source paths of all groups.
C12_GroupAtATime ==
    ~dry_run =>
        /\ \A k \in CallsOf("move") : Len(calls[k].arg.groups) = 1
        /\ \A k \in CallsOf("convert") \cup CallsOf("upload") : Len(calls[k].arg) = 1
        /\ \A j, k \in CallsOf("move") :
              j < k =>
                  /\ calls[j].arg.groups[1].start_time <= calls[k].arg.groups[1].start_time
                  /\ \E c \in CallsOf("convert"), u \in CallsOf("upload") :
                        j < c /\ c < u /\ u < k
        /\ (run_pc = "exit" /\ exit_code = Some(0) /\ CallsOf("upload") # {}) =>
              /\ Cardinality(CallsOf("delete")) = 1
              /\ calls[Len(calls)].op = "delete"
              /\ Range(calls[Len(calls)].arg) = SourcePaths(groups)

\* C13: a dry run calls move_groups_to_episodes with the whole group list and
\* dry_run = TRUE and makes no other call (no confirmation, no conversion, no
\* upload, no deletion); it makes that call once and returns 0 whenever the
\* scan has produced groups.
C13_DryRunStaysBulk ==
    dry_run =>
        /\ \A k \in 1..Len(calls) :
              calls[k] = Call("move", [groups |-> groups, dry_run |-> TRUE])
        /\ Len(calls) <= 1
        /\ run_pc # "raised"
        /\ (run_pc = "exit" /\ groups # <<>>) =>
              (Len(calls) = 1 /\ exit_code = Some(0))

\* A finished dry run over two groups, started at a terminal without --yes.
C13_Witness ==
    /\ dry_run
    /\ run_pc = "exit"
    /\ Len(groups) = 2
    /\ ~args.yes /\ args.tty
    /\ Len(calls) = 1
    /\ exit_code = Some(0)

----------------------------------------------------------------------------
(* frame.py: the lookup of the destination project by name *)

Project(name, id) == [name |-> name, id |-> id]
Team(name, id) == [name |-> name, id |-> id]

\* The answer of a listing call: it raised, or it returned items.
Raised == [ok |-> FALSE, items |-> <<>>]
Returned(items) == [ok |-> TRUE, items |-> items]

ApiCall(endpoint, arg, answer) ==
    [endpoint |-> endpoint, arg |-> arg, ok |-> answer.ok, items |-> answer.items]

\* str.lower() on the names that occur.
Lower(name) ==
    CASE name = "Podcast" -> "podcast"
      [] name = "PODCAST" -> "podcast"
      [] name = "Other" -> "other"
      [] OTHER -> name

\* Lines 68-74; state is projects and seen_project_ids.
add_project(state, project_source, project_name, project_id) ==
    IF project_name = "" \/ project_id = "" THEN state
    ELSE IF project_id \in state.seen THEN state
    ELSE [projects |-> Append(state.projects,
                              <<project_source, project_name, project_id>>),
          seen |-> state.seen \cup {project_id}]

\* The loops of lines 85-90, 108-113, 127-132 and 141-146.
RECURSIVE AddListed(_, _, _)
AddListed(state, project_source, listed) ==
    IF listed = <<>> THEN state
    ELSE AddListed(add_project(state, project_source, Head(listed).name,
                               Head(listed).id),
                   project_source, Tail(listed))

\* The loop over teams of lines 79-90 and 102-113: acc is the state, the calls
\* made and whether list_projects raised.
RECURSIVE TeamLoop(_, _)
TeamLoop(acc, teams) ==
    IF teams = <<>> \/ acc.raised THEN acc
    ELSE LET team == Head(teams)
         IN  IF team.id = "" THEN TeamLoop(acc, Tail(teams))
             ELSE LET answer == client.team_projects[team.id]
                      made == Append(acc.made,
                                     ApiCall("teams.list_projects", team.id, answer))
                  IN  TeamLoop([state |-> IF answer.ok
                                          THEN AddListed(acc.state, team.name, answer.items)
                                          ELSE acc.state,
                                made |-> made,
                                raised |-> ~answer.ok],
                               Tail(teams))

CollectState == [projects |-> projects, seen |-> seen_project_ids]

\* The try block of lines 76-94 and, with the teams of the account, of lines
\* 101-115.
ListTeamProjects(made, endpoint, arg, answer) ==
    LET first == [state |-> CollectState,
                  made |-> Append(made, ApiCall(endpoint, arg, answer)),
                  raised |-> ~answer.ok]
    IN  TeamLoop(first, answer.items)

Store(acc, zero_detail, failed_detail) ==
    /\ projects' = acc.state.projects
    /\ seen_project_ids' = acc.state.seen
    /\ api_calls' = acc.made
    /\ details' = IF acc.raised THEN Append(details, failed_detail)
                  ELSE IF Len(acc.state.projects) = Len(projects)
                  THEN Append(details, zero_detail)
                  ELSE details

\* Lines 76-94.
FrameTeams ==
    /\ frame_pc = "teams"
    /\ Store(ListTeamProjects(api_calls, "teams.list_all", "", client.teams_all),
             "/teams returned 0 projects", "/teams lookup failed")
    /\ frame_pc' = "account"
    /\ UNCHANGED <<client, destination_name, frame_result, pipeline_vars, mat_vars,
                   run_vars, cache_vars>>

\* Mutant: the fallback endpoints are consulted in every case.
HasProjectsNever(listed) == FALSE

\* Lines 121 and 152: if projects.
HasProjects(listed) == listed # <<>>

\* Lines 96-122.
FrameAccountTeams ==
    /\ frame_pc = "account"
    /\ LET me == ApiCall("users.get_me", "", client.me)
       IN  IF ~client.me.ok
           THEN /\ api_calls' = Append(api_calls, me)
                /\ details' = Append(details, "/accounts/{account_id}/teams lookup failed")
                /\ UNCHANGED <<projects, seen_project_ids>>
           ELSE IF client.me.items = <<>>
           THEN /\ api_calls' = Append(api_calls, me)
                /\ details' = Append(details, "/me lookup returned no account_id")
                /\ UNCHANGED <<projects, seen_project_ids>>
           ELSE Store(ListTeamProjects(Append(api_calls, me), "teams.list",
                                       client.me.items[1], client.account_teams),
                          "/accounts/{account_id}/teams returned 0 projects",
                          "/accounts/{account_id}/teams lookup failed")
    /\ frame_pc' = IF HasProjects(projects') THEN "resolve" ELSE "projects"
    /\ UNCHANGED <<client, destination_name, frame_result, pipeline_vars, mat_vars,
                   run_vars, cache_vars>>

\* One of the try blocks of lines 124-136 and 138-150.
ListEndpoint(endpoint, answer, zero_detail, failed_detail) ==
    Store([state |-> IF answer.ok
                     THEN AddListed(CollectState, endpoint, answer.items)
                     ELSE CollectState,
           made |-> Append(api_calls, ApiCall(endpoint, "", answer)),
           raised |-> ~answer.ok],
          zero_detail, failed_detail)

\* Lines 124-136.
FrameProjects ==
    /\ frame_pc = "projects"
    /\ ListEndpoint("projects", client.projects,
                    "/projects returned 0 projects", "/projects lookup failed")
    /\ frame_pc' = "shared"
    /\ UNCHANGED <<client, destination_name, frame_result, pipeline_vars, mat_vars,
                   run_vars, cache_vars>>

\* Lines 138-159.
FrameShared ==
    /\ frame_pc = "shared"
    /\ ListEndpoint("projects/shared", client.shared,
                    "/projects/shared returned 0 projects",
                    "/projects/shared lookup failed")
    /\ IF HasProjects(projects')
       THEN frame_pc' = "resolve" /\ UNCHANGED frame_result
       ELSE frame_pc' = "done" /\ frame_result' = Outcome("Unable to list", "")
    /\ UNCHANGED <<client, destination_name, pipeline_vars, mat_vars, run_vars,
                   cache_vars>>

\* Mutant: the case-insensitive matches are used whenever there are any.
ChooseCasefoldMatches(exact_matches, casefold_matches) ==
    IF casefold_matches # <<>> THEN casefold_matches ELSE exact_matches

\* Line 176.
ChooseMatches(exact_matches, casefold_matches) ==
    IF exact_matches # <<>> THEN exact_matches ELSE casefold_matches

\* Lines 167-194.
FrameResolve ==
    /\ frame_pc = "resolve"
    /\ LET exact_matches ==
              SelectSeq(projects, LAMBDA entry : entry[2] = destination_name)
           casefold_matches ==
              SelectSeq(projects,
                        LAMBDA entry : Lower(entry[2]) = Lower(destination_name))
           matches == ChooseMatches(exact_matches, casefold_matches)
       IN  IF matches = <<>>
           THEN /\ frame_result' = Outcome("Failed to find", destination_name)
                /\ UNCHANGED api_calls
           ELSE IF Len(matches) > 1
           THEN /\ frame_result' = Outcome("ambiguous", destination_name)
                /\ UNCHANGED api_calls
           ELSE LET project_id == matches[1][3]
                    answer == IF client.get_ok
                              THEN Returned(<<Project("", project_id)>>) ELSE Raised
                IN  /\ api_calls' = Append(api_calls,
                                           ApiCall("projects.get", project_id, answer))
                    /\ frame_result' = IF client.get_ok
                                       THEN Outcome("root_asset_id", project_id)
                                       ELSE Outcome("raised", project_id)
    /\ frame_pc' = "done"
    /\ UNCHANGED <<client, destination_name, projects, seen_project_ids, details,
                   pipeline_vars, mat_vars, run_vars, cache_vars>>

NextFrame == FrameTeams \/ FrameAccountTeams \/ FrameProjects \/ FrameShared \/ FrameResolve

ExactProject == Project("Podcast", "p1")
FoldedProject == Project("podcast", "p2")
SecondExactProject == Project("Podcast", "p3")
NamelessProject == Project("", "p4")
NoIdProject == Project("Podcast", "")

TeamA == Team("A", "a")
TeamB == Team("B", "b")
TeamNoId == Team("C", "")

\* What a project listing may answer.
ListingKinds ==
    {Raised, Returned(<<>>), Returned(<<ExactProject>>),
     Returned(<<FoldedProject, ExactProject>>),
     Returned(<<ExactProject, SecondExactProject>>),
     Returned(<<NamelessProject, NoIdProject>>)}

Clients ==
    [teams_all : {Raised, Returned(<<TeamA>>), Returned(<<TeamNoId, TeamA, TeamB>>)},
     me : {Raised, Returned(<<>>), Returned(<<"account-1">>)},
     account_teams : {Raised, Returned(<<TeamA>>), Returned(<<TeamB>>)},
     team_projects : {[t \in {"a", "b"} |-> IF t = "a" THEN a ELSE b] :
                          a \in ListingKinds,
                          b \in {Raised, Returned(<<ExactProject>>),
                                 Returned(<<FoldedProject>>)}},
     projects : ListingKinds,
     shared : ListingKinds,
     get_ok : BOOLEAN]

InitFrame ==
    /\ InitPipelineIdle
    /\ InitMaterializerIdle
    /\ InitRunIdle
    /\ InitCacheIdle
    /\ frame_pc = "teams"
    /\ client \in {c \in Clients :
                      (c.me.ok /\ c.me.items # <<>>) \/ c.account_teams = Raised}
    /\ destination_name \in {"Podcast", "PODCAST"}
    /\ projects = <<>>
    /\ seen_project_ids = {}
    /\ details = <<>>
    /\ api_calls = <<>>
    /\ frame_result = NoOutcome

SpecFrame == InitFrame /\ [][NextFrame]_vars

----------------------------------------------------------------------------
(* Properties of the project lookup *)

CallsTo(endpoints) == {k \in 1..Len(api_calls) : api_calls[k].endpoint \in endpoints}

TeamListings == CallsTo({"teams.list_projects"})
FallbackListings == CallsTo({"projects", "projects/shared"})

\* The projects with a name and an id that call k returned.
Produced(k) ==
    {p \in Range(api_calls[k].items) : p.name # "" /\ p.id # ""}

ListedProjects == UNION {Produced(k) : k \in TeamListings \cup FallbackListings}

C18_ListingDegrades ==
    /\ frame_pc \notin {"teams"} => Cardinality(CallsTo({"teams.list_all"})) = 1
    /\ frame_pc \notin {"teams", "account"} =>
          Cardinality(CallsTo({"users.get_me"})) = 1
    /\ FallbackListings # {} => \A k \in TeamListings : Produced(k) = {}
    /\ frame_pc \in {"resolve", "done"} =>
          IF \A k \in TeamListings : Produced(k) = {}
          THEN /\ Cardinality(CallsTo({"projects"})) = 1
               /\ Cardinality(CallsTo({"projects/shared"})) = 1
          ELSE FallbackListings = {}
    /\ frame_pc = "done" =>
          (frame_result.kind = "Unable to list" <=> ListedProjects = {})
    /\ frame_pc = "resolve" => ListedProjects # {}

\* /teams, /me and /projects all raised and /projects/shared listed the project.
C18_Witness ==
    /\ frame_pc = "done"
    /\ frame_result.kind = "root_asset_id"
    /\ \A k \in CallsTo({"teams.list_all", "users.get_me", "projects"}) : ~api_calls[k].ok
    /\ \E k \in CallsTo({"projects/shared"}) : Produced(k) # {}

----------------------------------------------------------------------------
(* lru_cache(maxsize=4096) around safe_media_duration_seconds *)

\* maxsize of the decorator: 4096 in the source, scaled down so that a full
\* cache is reached.
maxsize == 2

MaxCacheCalls == 4

CacheEntry(path, result) == [path |-> path, result |-> result]

CacheCallRecord(path, hit, probed, result, evicted) ==
    [path |-> path, hit |-> hit, probed |-> probed, result |-> result, evicted |-> evicted]

\* Lines 103-106: the body gets as far as running ffprobe.
RunsProbe(path) == is_media_file(path) /\ ffprobe

\* Mutant: a full cache drops its most recently used entry.
EvictNewest(cache) == SubSeq(cache, 1, Len(cache) - 1)

\* A full cache drops its least recently used entry.
EvictOldest(cache) == Tail(cache)

PathsOf(cache) == {cache[i].path : i \in 1..Len(cache)}

\* A call of the decorated function: a hit moves the entry to the recent end
\* and returns its result; a miss runs the body, stores what it returned, None
\* included, and makes room first when the cache is full.
CachedCall(path) ==
    /\ Len(cache_log) < MaxCacheCalls
    /\ IF path \in PathsOf(duration_cache)
       THEN LET entry == CHOOSE e \in Range(duration_cache) : e.path = path
            IN  /\ duration_cache' =
                       Append(SelectSeq(duration_cache, LAMBDA e : e.path # path), entry)
                /\ cache_log' = Append(cache_log,
                       CacheCallRecord(path, TRUE, FALSE, entry.result, {}))
       ELSE LET result == safe_media_duration_seconds(path)
                kept == IF Len(duration_cache) >= maxsize
                        THEN EvictOldest(duration_cache) ELSE duration_cache
            IN  /\ duration_cache' = Append(kept, CacheEntry(path, result))
                /\ cache_log' = Append(cache_log,
                       CacheCallRecord(path, FALSE, RunsProbe(path), result,
                                       PathsOf(duration_cache) \ PathsOf(kept)))
    /\ UNCHANGED <<pipeline_vars, mat_vars, run_vars, frame_vars>>

ProbedDuration == Some(4000)

\* Lines 119-143: what ffprobe answers for a media file is not fixed: it may
\* time out or exit non-zero at one call and print a duration at another.
ProbeTurns(i) ==
    /\ tree[PRIMARY][i].media
    /\ tree' = [tree EXCEPT ![PRIMARY][i].duration =
                                IF @ = None THEN ProbedDuration ELSE None]
    /\ UNCHANGED <<pc, ffprobe, selected_sources, window, day_matched_files, groups,
                   align_vars, rest_vars>>

\* Line 105: shutil.which("ffprobe") is asked at every run of the body.
FfprobeTurns ==
    /\ ffprobe' = ~ffprobe
    /\ UNCHANGED <<pc, tree, selected_sources, window, day_matched_files, groups,
                   align_vars, rest_vars>>

NextCache ==
    \/ \E i \in 1..Len(tree[PRIMARY]) : CachedCall(tree[PRIMARY][i].path)
    \/ \E i \in 1..Len(tree[PRIMARY]) : ProbeTurns(i)
    \/ FfprobeTurns

\* One path more than the cache holds; the last one is not a media file.
CacheListing ==
    [i \in 1..(maxsize + 1) |->
        [path |-> <<PRIMARY, i>>, media |-> i <= maxsize, hidden |-> FALSE,
         created_at |-> Some(DayStart),
         duration |-> IF i <= maxsize THEN ProbedDuration ELSE None]]

InitCache ==
    /\ pc = "idle"
    /\ tree = [s \in SourceNames |-> IF s = PRIMARY THEN CacheListing ELSE <<>>]
    /\ ffprobe = TRUE
    /\ selected_sources = <<>>
    /\ window = 0
    /\ day_matched_files = <<>>
    /\ groups = <<>>
    /\ InitAlignVars
    /\ InitMaterializerIdle
    /\ InitRunIdle
    /\ InitFrameIdle
    /\ InitCacheIdle

SpecCache == InitCache /\ [][NextCache]_vars

----------------------------------------------------------------------------
(* Properties of the duration cache *)

\* The paths of the first n calls.
LogPaths(n) == [k \in 1..n |-> cache_log[k].path]

\* The distinct paths of s, ordered by their last use.
LastUses(s) ==
    LET last == SelectSeq([i \in 1..Len(s) |-> i],
                          LAMBDA i : \A j \in (i + 1)..Len(s) : s[j] # s[i])
    IN  [k \in 1..Len(last) |-> s[last[k]]]

\* The n most recently used paths of s.
MostRecent(s, n) ==
    LET used == LastUses(s)
    IN  IF Len(used) <= n THEN used ELSE SubSeq(used, Len(used) - n + 1, Len(used))

CallsFor(path) == {k \in 1..Len(cache_log) : cache_log[k].path = path}

\* The call for the same path before call k; 0 if there is none.
PreviousCall(k) ==
    LET earlier == {j \in CallsFor(cache_log[k].path) : j < k}
    IN  IF earlier = {} THEN 0 ELSE CHOOSE j \in earlier : \A i \in earlier : i <= j

\* The cache holds at most maxsize entries, and a miss on a full cache evicts
\* the least recently used path and nothing else.
CacheBounded ==
    /\ Len(duration_cache) <= maxsize
    /\ \A k \in 1..Len(cache_log) :
          cache_log[k].evicted =
              Range(MostRecent(LogPaths(k - 1), maxsize))
                  \ Range(MostRecent(LogPaths(k), maxsize))

\* C19 as stated: ffprobe runs at most once for a path, every call for a path
\* returns what the first call for it returned, the cache holds at most
\* maxsize entries and evicts the least recently used one when full.
C19_WriteOncePerPath ==
    /\ \A i \in 1..Len(tree[PRIMARY]) :
          Cardinality({k \in CallsFor(tree[PRIMARY][i].path) : cache_log[k].probed}) <= 1
    /\ \A k \in 1..Len(cache_log) :
          PreviousCall(k) # 0 => cache_log[k].result = cache_log[PreviousCall(k)].result
    /\ CacheBounded

\* C19, amended: the cache holds the maxsize most recently used paths, least
\* recent first, each with what its latest call returned; a call for a path
\* held by the cache does not run the body and returns what the call before
\* it for that path returned, None included; any other call runs the body;
\* and a miss on a full cache evicts the least recently used path.
C19_WriteOnceWhileCached ==
    /\ [i \in 1..Len(duration_cache) |-> duration_cache[i].path]
          = MostRecent(LogPaths(Len(cache_log)), maxsize)
    /\ \A k \in 1..Len(cache_log) :
          LET call == cache_log[k]
          IN  /\ call.hit <=> call.path \in Range(MostRecent(LogPaths(k - 1), maxsize))
              /\ call.probed => ~call.hit
              /\ call.hit => call.result = cache_log[PreviousCall(k)].result
    /\ \A e \in Range(duration_cache) :
          \E k \in CallsFor(e.path) :
              /\ \A j \in CallsFor(e.path) : j <= k
              /\ cache_log[k].result = e.result
    /\ CacheBounded

\* ffprobe gave nothing for a path, a later call for it was answered from the
\* cache, and a path has been evicted.
C19_Witness ==
    /\ \E k \in 1..Len(cache_log) :
          /\ cache_log[k].hit
          /\ cache_log[k].result = None
          /\ cache_log[PreviousCall(k)].probed
    /\ \E k \in 1..Len(cache_log) : cache_log[k].evicted # {}

----------------------------------------------------------------------------
(* scan_source_for_today_files on its own *)

MaxScanFiles == 3

ScanKind(media, hidden, created_at) ==
    [media |-> media, hidden |-> hidden, created_at |-> created_at]

\* clip.mov at the first and the last second of the day, at day_end and a
\* second before the day; clip.mov whose stat() fails; FFXFER.DAT and ._clip.mov
\* created on the day.
ScanKinds ==
    {ScanKind(TRUE, FALSE, Some(DayStart)), ScanKind(TRUE, FALSE, Some(DayEnd - 1)),
     ScanKind(TRUE, FALSE, Some(DayEnd)), ScanKind(TRUE, FALSE, Some(DayStart - 1)),
     ScanKind(TRUE, FALSE, None), ScanKind(FALSE, FALSE, Some(DayStart)),
     ScanKind(TRUE, TRUE, Some(DayStart))}

ScanListing(source, kinds) ==
    [i \in 1..Len(kinds) |->
        [path |-> <<source, i>>, media |-> kinds[i].media, hidden |-> kinds[i].hidden,
         created_at |-> kinds[i].created_at, duration |-> None]]

\* One call of scan_source_for_today_files, lines 146-179.
ScanSource(source) ==
    /\ pc = "start"
    /\ day_matched_files' = scan_source_for_today_files(source, DayStart, DayEnd)
    /\ selected_sources' = <<source>>
    /\ pc' = "scanned"
    /\ UNCHANGED <<tree, ffprobe, window, groups, align_vars, rest_vars>>

NextScan == \E source \in SourceNames : ScanSource(source)

InitScan ==
    /\ pc = "start"
    /\ \E kinds \in SeqsUpTo(ScanKinds, MaxScanFiles) :
          tree = [s \in SourceNames |-> IF s = EOS THEN ScanListing(s, kinds) ELSE <<>>]
    /\ ffprobe = TRUE
    /\ selected_sources = <<>>
    /\ window = 0
    /\ day_matched_files = <<>>
    /\ groups = <<>>
    /\ InitAlignVars
    /\ InitRest

SpecScan == InitScan /\ [][NextScan]_vars

----------------------------------------------------------------------------
(* Properties of the scan *)

\* A media file whose creation time can be read and lies in [DayStart, DayEnd).
MediaOfDay(e) ==
    /\ e.media
    /\ e.created_at # None
    /\ DayStart <= Value(e.created_at)
    /\ Value(e.created_at) < DayEnd

ScannedSource == selected_sources[1]

\* C20 as stated: the paths returned are those of the media files of the
\* source with a readable creation time in [DayStart, DayEnd).
C20_ExactlyMediaOfDay ==
    pc = "scanned" =>
        {f.path : f \in Range(day_matched_files)}
            = {e.path : e \in {x \in Range(tree[ScannedSource]) : MediaOfDay(x)}}

\* C20, amended: the scan returns, in walk order and each once, exactly the
\* media files with a readable creation time in [DayStart, DayEnd) that are not
\* hidden, each with the source name and the creation time read.
C20_ExactlyShownMediaOfDay ==
    pc = "scanned" =>
        LET kept == SelectSeq(tree[ScannedSource], LAMBDA e : MediaOfDay(e) /\ ~e.hidden)
        IN  day_matched_files =
                [i \in 1..Len(kept) |->
                    MediaFile(ScannedSource, kept[i].path, Value(kept[i].created_at))]

\* A file whose stat() fails comes before a file that is returned, and a file
\* that is not a media file was created on the day.
C20_Witness ==
    /\ pc = "scanned"
    /\ \E i, j \in 1..Len(tree[ScannedSource]) :
          /\ i < j
          /\ tree[ScannedSource][i].created_at = None
          /\ tree[ScannedSource][j].path \in {f.path : f \in Range(day_matched_files)}
    /\ \E e \in Range(tree[ScannedSource]) :
          ~e.media /\ ~e.hidden /\ e.created_at = Some(DayStart)

----------------------------------------------------------------------------
(* group_files_by_start_time on a slow drift of files *)

MaxDriftFiles == 4
MaxDriftTime == 3
MaxDriftWindow == 2

InitDrift ==
    /\ pc = "scanned"
    /\ tree = [s \in SourceNames |-> <<>>]
    /\ ffprobe = TRUE
    /\ selected_sources = <<>>
    /\ window \in 1..MaxDriftWindow
    /\ \E n \in 0..MaxDriftFiles :
         \E created_at \in [1..n -> 0..MaxDriftTime] :
            day_matched_files =
                [i \in 1..n |-> MediaFile(PRIMARY, <<PRIMARY, i>>, created_at[i])]
    /\ InitAlignVars
    /\ InitRest

SpecDrift == InitDrift /\ [][Cluster]_vars

\* Every file was created less than one window after the file before it.
Drift(files, w) ==
    LET sorted_files == SortedByCreatedAt(files)
    IN  /\ files # <<>>
        /\ \A i \in 1..(Len(files) - 1) :
              sorted_files[i + 1].created_at - sorted_files[i].created_at < w

\* Latest created_at of the input minus the earliest.
InputSpan(files) ==
    LET sorted_files == SortedByCreatedAt(files)
    IN  sorted_files[Len(files)].created_at - sorted_files[1].created_at

\* C21 as stated: a run of files each created less than one window after its
\* predecessor comes out as a single group.
C21_DriftIsOneGroup ==
    (pc = "clustered" /\ Drift(day_matched_files, window)) => Len(groups) = 1

\* C21, amended: no file of a group was created more than one window after
\* the group's start_time, and a drift that spans more than one window is cut
\* into several groups.
C21_SpanWithinWindow ==
    pc = "clustered" =>
        /\ \A g \in Range(groups) : \A f \in Range(g.files) :
              /\ g.start_time <= f.created_at
              /\ f.created_at - g.start_time <= window
        /\ (Drift(day_matched_files, window) /\ InputSpan(day_matched_files) > window)
              => Len(groups) >= 2

\* A drift that spans more than one window has been grouped.
C21_Witness ==
    /\ pc = "clustered"
    /\ Drift(day_matched_files, window)
    /\ InputSpan(day_matched_files) > window
    /\ Len(groups) >= 2

----------------------------------------------------------------------------
(* The walk of group_files_by_start_time *)

\* The file lists of the groups, one after the other.
RECURSIVE FilesInOrder(_)
FilesInOrder(gs) ==
    IF gs = <<>> THEN <<>> ELSE Head(gs).files \o FilesInOrder(Tail(gs))

\* C22: the groups, read one after the other, are the input in created_at
\* order; the start_time of a group is the created_at of its first file; a
\* file is in the group of the anchor before it exactly when it was created at
\* most one window after that anchor, so every file of a group lies within one
\* window of its start_time and the first file of each later group lies more
\* than one window after the start_time of the group before; start_times
\* ascend strictly; no file gives no group and one file gives one group.
C22_AnchoredWalk ==
    pc = "clustered" =>
        /\ FilesInOrder(groups) = SortedByCreatedAt(day_matched_files)
        /\ \A i \in 1..Len(groups) :
              /\ groups[i].files # <<>>
              /\ groups[i].start_time = groups[i].files[1].created_at
              /\ \A f \in Range(groups[i].files) :
                    f.created_at - groups[i].start_time <= window
        /\ \A i \in 1..(Len(groups) - 1) :
              /\ groups[i].start_time < groups[i + 1].start_time
              /\ groups[i + 1].files[1].created_at - groups[i].start_time > window
        /\ day_matched_files = <<>> => groups = <<>>
        /\ Len(day_matched_files) = 1 =>
              groups = <<MediaGroup(day_matched_files[1].created_at, day_matched_files)>>

\* A file created exactly one window after the anchor joined the group, and a
\* later file opened a second group.
C22_Witness ==
    /\ pc = "clustered"
    /\ window > 0
    /\ Len(groups) = 2
    /\ \E f \in Range(groups[1].files) : f.created_at - groups[1].start_time = window

----------------------------------------------------------------------------
(* Alignment without duration metadata *)

\* ffprobe gives a duration for no file handed to the alignment.
NoDurationAtAll ==
    \A f \in Range(day_matched_files) : safe_media_duration_seconds(f.path) = None

\* C23: when no file has a duration, every group that alignment received is
\* still there when it returns, with every file it had.
C23_TimeOnlyGrouping ==
    (Aligned /\ NoDurationAtAll) =>
        \A e \in Range(groups_at_entry) :
            \E g \in Range(groups) :
                /\ g.start_time = e.start_time
                /\ Range(e.files) \subseteq Range(g.files)

----------------------------------------------------------------------------
(* The stages of a run *)

\* C24: move_groups_to_episodes is called only after the scan, the clustering
\* and align_groups_by_media_duration, with the group list that the alignment
\* left behind.
C24_AlignedBeforeMove ==
    \A k \in CallsOf("move") :
        /\ day_matched_files # <<>>
        /\ returned
        /\ \E a \in CallsOf("align") : a < k
        /\ calls[k].arg.groups = groups

----------------------------------------------------------------------------
(* The scaffold source of the alignment *)

\* C25: the source whose files define the groups and the targets is the one
\* that discover_sources lists first, whatever the sources contributed; when
\* alignment has run through, every group holds a file of it.
C25_FixedPrimary ==
    /\ primary_source_name # None => primary_source_name = Some(RunOptions[1])
    /\ (Aligned /\ primary_source_name # None) =>
          \A g \in Range(groups) : \E f \in Range(g.files) : f.source = RunOptions[1]

----------------------------------------------------------------------------
(* What alignment leaves as it was *)

\* The groups alignment received that hold a file of the source.
ScaffoldAtEntry(name) ==
    SelectSeq(groups_at_entry, LAMBDA e : FilesOfSource(e.files, name) # <<>>)

\* C26: with P the source alignment took as primary, the groups it returns
\* are, in the order it received them, the groups that held a file of P, and
\* each holds exactly the files of P it held before; without such a source the
\* groups are returned as received.
C26_PrimaryMembershipKept ==
    Aligned =>
        IF primary_source_name = None THEN groups = groups_at_entry
        ELSE LET P == Value(primary_source_name)
                 kept == ScaffoldAtEntry(P)
             IN  /\ Len(groups) = Len(kept)
                 /\ \A i \in 1..Len(groups) :
                       /\ groups[i].start_time = kept[i].start_time
                       /\ FilesOfSource(groups[i].files, P) = FilesOfSource(kept[i].files, P)
                 /\ \A i, j \in 1..Len(groups) :
                       i # j => Range(FilesOfSource(groups[i].files, P))
                                   \cap Range(FilesOfSource(groups[j].files, P)) = {}

\* Two groups are left, one of them with a file that alignment attached, and
\* a group without a primary file is gone.
C26_Witness ==
    /\ Aligned
    /\ primary_source_name # None
    /\ Len(groups) = 2
    /\ Len(groups) < Len(groups_at_entry)
    /\ \E g \in Range(groups) : \E a \in Attached : a.file \in Range(g.files)

----------------------------------------------------------------------------
(* The candidate pool of a secondary source *)

MaxPoolFiles == 3

PoolKind(media, hidden, created_at) ==
    [media |-> media, hidden |-> hidden, created_at |-> created_at]

\* A clip of the day (12:00); clips at the first and the last second of the
\* spillover range and one second outside it on either side; a clip ten days
\* later; a clip whose stat() fails; a file that is no media file and a hidden
\* clip, both an hour after the day.
PoolKinds ==
    {PoolKind(TRUE, FALSE, Some(43200)),
     PoolKind(TRUE, FALSE, Some(DayStart - SPILLOVER_WINDOW)),
     PoolKind(TRUE, FALSE, Some(DayStart - SPILLOVER_WINDOW - 1)),
     PoolKind(TRUE, FALSE, Some(DayEnd + SPILLOVER_WINDOW - 1)),
     PoolKind(TRUE, FALSE, Some(DayEnd + SPILLOVER_WINDOW)),
     PoolKind(TRUE, FALSE, Some(DayEnd + 9 * DayLength)),
     PoolKind(TRUE, FALSE, None),
     PoolKind(FALSE, FALSE, Some(DayEnd + 3600)),
     PoolKind(TRUE, TRUE, Some(DayEnd + 3600))}

\* Every clip is 40 s long.
PoolListing(source, kinds) ==
    [i \in 1..Len(kinds) |->
        [path |-> <<source, i>>, media |-> kinds[i].media, hidden |-> kinds[i].hidden,
         created_at |-> kinds[i].created_at, duration |-> Some(4000)]]

\* Two recordings of the day, 10:00 and 14:00, 40 s each.
PoolAudio == Listing(PRIMARY, <<Kind(36000, Some(4000)), Kind(50400, Some(4000))>>)

InitPool ==
    /\ pc = "start"
    /\ \E kinds \in SeqsUpTo(PoolKinds, MaxPoolFiles) :
          tree = [s \in SourceNames |->
                    IF s = PRIMARY THEN PoolAudio
                    ELSE IF s = EOS THEN PoolListing(s, kinds) ELSE <<>>]
    /\ ffprobe = TRUE
    /\ selected_sources = <<PRIMARY, EOS>>
    /\ window = 300
    /\ day_matched_files = <<>>
    /\ InitAlignVars
    /\ InitRest

SpecPool == InitPool /\ [][Next]_vars

\* created_at lies in [DayStart - 6 h, DayEnd + 6 h).
InSpilloverRange(created_at) ==
    /\ DayStart - SPILLOVER_WINDOW <= created_at
    /\ created_at < DayEnd + SPILLOVER_WINDOW

\* The media files of the source with a readable creation time that the pool
\* admits: all of them when the source has no same-day file.
Admitted(source) ==
    {e \in Range(tree[source]) :
        /\ e.media
        /\ e.created_at # None
        /\ \/ FilesOfSource(day_matched_files, source) = <<>>
           \/ InSpilloverRange(Value(e.created_at))}

PoolPaths(iteration) == {c.path : c \in Range(iteration.candidates)}

DayPaths(source) == {f.path : f \in Range(FilesOfSource(day_matched_files, source))}

\* C27 as stated: the pool of a secondary source holds its same-day files and
\* every admitted media file of its tree, each path once.
C27_PoolIsEveryAdmittedFile ==
    \A k \in 1..Len(monotonic_matches) :
        LET it == monotonic_matches[k]
        IN  /\ PoolPaths(it) = DayPaths(it.source) \cup {e.path : e \in Admitted(it.source)}
            /\ Cardinality(PoolPaths(it)) = Len(it.candidates)

\* C27, amended: the pool holds the same-day files and every admitted media
\* file of the tree that is not hidden, each path once, the same-day files
\* first and as the scan recorded them, every other file with the source name
\* and the creation time read.
C27_PoolIsEveryShownAdmittedFile ==
    \A k \in 1..Len(monotonic_matches) :
        LET it == monotonic_matches[k]
            day == FilesOfSource(day_matched_files, it.source)
        IN  /\ PoolPaths(it) = DayPaths(it.source)
                    \cup {e.path : e \in {x \in Admitted(it.source) : ~x.hidden}}
            /\ Cardinality(PoolPaths(it)) = Len(it.candidates)
            /\ SubSeq(it.candidates, 1, Len(day)) = day
            /\ \A c \in Range(it.candidates) :
                  c = MediaFile(it.source, c.path, Value(Entry(c.path).created_at))

\* A source without a same-day file: its clip ten days after the day is in
\* the pool, its file that is no media file is not.
C27_Witness ==
    \E k \in 1..Len(monotonic_matches) :
        LET it == monotonic_matches[k]
        IN  /\ DayPaths(it.source) = {}
            /\ \E c \in Range(it.candidates) : c.created_at = DayEnd + 9 * DayLength
            /\ \E e \in Range(tree[it.source]) : ~e.media

----------------------------------------------------------------------------
(* Files and groups without a duration *)

\* The durations ffprobe gives for the files of a group.
ObtainableDurations(g) ==
    {Value(safe_media_duration_seconds(f.path)) :
        f \in {x \in Range(g.files) : safe_media_duration_seconds(x.path) # None}}

\* C28: a file attached by alignment has a duration and its group has a
\* target; a group has no target exactly when none of its primary files has a
\* duration, and its target is otherwise the largest of their durations; when
\* alignment has returned, a file that is not of the primary source and has no
\* duration is in no group, and a group without a target holds primary files
\* only; and a source with a candidate that is admissible for some group with
\* a target gets a match, whatever other candidates and groups lack.
C28_NoEvidenceNoMatch ==
    /\ \A a \in Attached :
          /\ safe_media_duration_seconds(a.file.path) # None
          /\ group_targets[a.anchor_index] # None
    /\ pc = "align" =>
          \A i \in 1..Len(groups) :
              LET primary_files == FilesOfSource(groups[i].files, Value(primary_source_name))
                  durations == ObtainableDurations(MediaGroup(0, primary_files))
              IN  /\ group_targets[i] = None <=> durations = {}
                  /\ group_targets[i] # None =>
                        /\ Value(group_targets[i]) \in durations
                        /\ \A d \in durations : d <= Value(group_targets[i])
    /\ (Aligned /\ primary_source_name # None) =>
          \A g \in Range(groups) : \A f \in Range(g.files) :
              f.source # Value(primary_source_name) =>
                  /\ safe_media_duration_seconds(f.path) # None
                  /\ ObtainableDurations(
                         MediaGroup(0, FilesOfSource(g.files, Value(primary_source_name)))) # {}
    /\ \A k \in 1..Len(monotonic_matches) :
          LET it == monotonic_matches[k]
          IN  (\E c \in Range(it.candidates), i \in 1..Len(group_targets) :
                  /\ safe_media_duration_seconds(c.path) # None
                  /\ score_candidate_to_anchor(c, Value(safe_media_duration_seconds(c.path)),
                                               i, group_anchor_times, group_targets) # None)
              => it.matches # <<>>

\* A candidate without a duration and a scaffold group without a target:
\* another group received a file all the same.
C28_Witness ==
    /\ Aligned
    /\ \E i \in 1..Len(group_targets) : group_targets[i] = None
    /\ \E k \in 1..Len(monotonic_matches) : monotonic_matches[k].matches # <<>>
    /\ \E k \in 1..Len(monotonic_matches) :
          \E c \in Range(monotonic_matches[k].candidates) :
              safe_media_duration_seconds(c.path) = None

----------------------------------------------------------------------------
(* The worker pool of move_groups_to_episodes, lines 607-638 *)
(* A job is queued, then running in a worker; done_ok or done_failed when   *)
(* copy_file_to_destination has ended and its future is done; ok or failed  *)
(* when the as_completed loop of the calling thread has handled the future.  *)

\* Line 607.
PoolSize(total_files) ==
    IF Max(total_files, 1) <= MAX_WORKERS THEN Max(total_files, 1) ELSE MAX_WORKERS

\* A worker: copy_file_to_destination ends for job j, and the worker takes
\* the next job of the queue.
CopyEnds(j, ok) ==
    /\ mat_pc = "copy"
    /\ j \in 1..Len(copy_jobs)
    /\ job_state[j] = "running"
    /\ LET ended == [job_state EXCEPT ![j] = IF ok THEN "done_ok" ELSE "done_failed"]
       IN  /\ job_state' = StartQueued(ended, PoolSize(TotalFiles(mat_groups)))
           /\ attempts' = [i \in 1..Len(attempts) |->
                              attempts[i] + Started(ended, job_state')[i]]
    /\ episode_files' = IF ok THEN episode_files \cup {copy_jobs[j].destination}
                        ELSE episode_files
    /\ UNCHANGED <<mat_pc, dry_run, mat_groups, root_exists, episode_dirs, episode_plain,
                   episode_directories, group_index, copy_jobs, copy_failures,
                   episode_groups, mat_result, at_entry, dry_plan, not_mat_vars>>

\* The calling thread: one iteration of the as_completed loop, lines 617-630.
Collect(j) ==
    /\ mat_pc = "copy"
    /\ j \in 1..Len(copy_jobs)
    /\ job_state[j] \in {"done_ok", "done_failed"}
    /\ LET job == copy_jobs[j]
       IN  IF job_state[j] = "done_ok"
           THEN /\ episode_groups' =
                      [episode_groups EXCEPT ![job.group_index].files =
                          Append(@, MediaFile(job.file.source, job.destination,
                                              job.file.created_at))]
                /\ job_state' = [job_state EXCEPT ![j] = "ok"]
                /\ UNCHANGED copy_failures
           ELSE /\ copy_failures' = RecordFailure(copy_failures, job)
                /\ job_state' = [job_state EXCEPT ![j] = "failed"]
                /\ UNCHANGED episode_groups
    /\ UNCHANGED <<mat_pc, dry_run, mat_groups, disk_vars, episode_directories,
                   group_index, copy_jobs, mat_result, attempts, at_entry, dry_plan,
                   not_mat_vars>>

\* The copies that may fail.
MayFail == {1, MAX_WORKERS + 1}

NextCopy ==
    \/ MatAllocate
    \/ MatPlanGroup
    \/ MatSubmit
    \/ \E j \in 1..Len(copy_jobs), ok \in BOOLEAN : (ok \/ j \in MayFail) /\ CopyEnds(j, ok)
    \/ \E j \in 1..Len(copy_jobs) : Collect(j)
    \/ MatFinish

\* One take per group: input_1.wav, input_2.wav, ...
CopyGroups(n) ==
    [i \in 1..n |->
        MediaGroup(44253 + i,
                   <<MediaFile(PRIMARY, <<PRIMARY, FileName(<<"input", i>>, ".wav")>>,
                               44253 + i)>>)]

\* No file, one file, as many files as the pool may hold, and one more.
CopyGroupCounts == {0, 1, MAX_WORKERS, MAX_WORKERS + 1}

InitCopy ==
    /\ InitPipelineIdle
    /\ mat_pc = "called"
    /\ dry_run = FALSE
    /\ \E n \in CopyGroupCounts : mat_groups = CopyGroups(n)
    /\ at_entry = [root_exists |-> FALSE, episode_dirs |-> {}, episode_plain |-> {},
                   episode_files |-> {}]
    /\ root_exists = at_entry.root_exists
    /\ episode_dirs = at_entry.episode_dirs
    /\ episode_plain = at_entry.episode_plain
    /\ episode_files = at_entry.episode_files
    /\ InitCall
    /\ InitRunIdle
    /\ InitFar

SpecCopy == InitCopy /\ [][NextCopy]_vars

JobsIn(states) == {j \in 1..Len(job_state) : job_state[j] \in states}

RECURSIVE MovedFiles(_)
MovedFiles(egs) ==
    IF egs = <<>> THEN 0 ELSE Len(Head(egs).files) + MovedFiles(Tail(egs))

\* C29: while the copies run, at most min(max(total_files, 1), 8) of them are
\* in a worker; the episode groups and the failure list hold what the calling
\* thread has collected, not what the workers have finished; and the call has
\* returned or raised RuntimeError only with every submitted copy run once,
\* finished and collected.
C29_BoundedPool ==
    /\ mat_pc = "copy" =>
          /\ Cardinality(JobsIn({"running"})) <= PoolSize(Len(copy_jobs))
          /\ Cardinality(JobsIn({"running"})) <= 8
          /\ JobsIn({"queued"}) # {} =>
                Cardinality(JobsIn({"running"})) = PoolSize(Len(copy_jobs))
          /\ MovedFiles(episode_groups) = Cardinality(JobsIn({"ok"}))
          /\ Len(copy_failures) = Cardinality(JobsIn({"failed"}))
          /\ \A j \in JobsIn({"done_ok", "ok"}) : copy_jobs[j].destination \in episode_files
    /\ (mat_pc = "done" /\ mat_result \in {"returned", "RuntimeError"}) =>
          /\ JobsIn({"ok", "failed"}) = 1..Len(copy_jobs)
          /\ \A j \in 1..Len(copy_jobs) : attempts[j] = 1

\* Nine copies: eight are in a worker, one has ended and is not collected yet.
C29_Witness ==
    /\ mat_pc = "copy"
    /\ Len(copy_jobs) = MAX_WORKERS + 1
    /\ Cardinality(JobsIn({"running"})) = MAX_WORKERS
    /\ JobsIn({"done_ok"}) # {}
    /\ MovedFiles(episode_groups) = 0

----------------------------------------------------------------------------
(* Secondary files after alignment *)

\* The files of the groups alignment received that are not of the source.
SecondaryAtEntry(name) ==
    {f \in UNION {Range(e.files) : e \in Range(groups_at_entry)} : f.source # name}

\* C30: when alignment has returned with a primary source P, every file of a
\* group that is not of P was matched in this call and sits in the group of
\* its match and in no other; a file not of P that the clustering had put
\* into a group and that got no match is in no group; and no group is left
\* whose files on entry were all not of P.
C30_SecondaryOnlyByMatch ==
    (Aligned /\ primary_source_name # None) =>
        LET P == Value(primary_source_name)
        IN  /\ \A i \in 1..Len(groups) : \A f \in Range(groups[i].files) :
                  f.source # P =>
                      \E a \in Attached :
                          /\ a.file = f
                          /\ group_anchor_times[a.anchor_index] = groups[i].start_time
                          /\ GroupsHolding(f) = {i}
            /\ \A f \in SecondaryAtEntry(P) :
                  (\A a \in Attached : a.file # f) => GroupsHolding(f) = {}
            /\ \A e \in Range(groups_at_entry) :
                  (\A f \in Range(e.files) : f.source # P) =>
                      \A g \in Range(groups) : g.start_time # e.start_time

\* A file that the clustering had grouped got no match and is in no group,
\* the group of another one is gone and that file sits in a group by its
\* match, which is not the first group.
C30_Witness ==
    /\ Aligned
    /\ primary_source_name # None
    /\ Len(groups) < Len(groups_at_entry)
    /\ \E f \in SecondaryAtEntry(Value(primary_source_name)) : GroupsHolding(f) = {}
    /\ \E a \in Attached :
          /\ a.anchor_index > 1
          /\ a.file \in SecondaryAtEntry(Value(primary_source_name))
          /\ GroupsHolding(a.file) # {}

====
